---- MODULE Spec2Model ----
(***************************************************************************)
(* nvsleepify daemon: the power-transition engine (sleep_logic,            *)
(* wake_logic), the bus handlers that run it on blocking workers, the      *)
(* monitor loop and the startup restore, over an abstraction of the        *)
(* sysfs / process / service / module state they read and write.           *)
(*                                                                         *)
(* A transition runs on a worker thread (spawn_blocking); every call it    *)
(* makes is one step, so that steps of two workers interleave exactly as   *)
(* the blocking pool allows.                                               *)
(***************************************************************************)
EXTENDS Integers, Sequences, FiniteSets, TLC

\* ------------------------------------------------------------ bounds
MaxPid == 1
NumSlots == 1
\* changes of the charger followed between two reads of its status
MaxFlips == 2

\* ------------------------------------------------------------ constants
TickSecs == 2
DebounceSecs == 5

Pids == 1..MaxPid
Slots == 1..NumSlots
\* the slot get_slot_path resolves for the GPU
GpuSlot == 1

\* "main" runs restore_logic in run(); "mon" is monitor_loop; "bus" is the
\* object server dispatching one method call at a time.
Threads == {"main", "mon", "bus"}

\* what get_power_state() may return: the content of <dev>/power_state, or
\* "Unknown" when the file cannot be read
PowerStates == {"D0", "D3hot", "D3cold", "Unknown"}

VARIABLES
    gpuPresent,     \* an Nvidia display device is listed under /sys/bus/pci/devices
    driverBound,    \* <dev>/driver exists: some driver is bound to the device
    modulesLoaded,  \* the nvidia kernel modules are loaded
    servicesUp,     \* the nvidia service units are started/enabled
    slots,          \* /sys/bus/pci/slots/<s>/power, 0 or 1
    procs,          \* pids holding an Nvidia device node open
    stateFile,      \* /var/lib/nvsleepify/state: "absent", "on", "off"
    autoFile,       \* /var/lib/nvsleepify/auto: "absent", "true", "false"
    phase,          \* position of main() and run(): "boot" before the uid check,
                    \* "exit1" after exit(1), "restore", then "serving"
    host,           \* the machine around the daemon, when followed: whether a
                    \* user is logged in and whether it is suspended
    probe,          \* a call of one of the pure functions, when one is followed:
                    \* the function, its argument and what it returned
    th,             \* per worker: the call it runs and where it is in it
    monPc,          \* position of monitor_loop's body: "tick" or "enforce"
    monFirst,       \* the interval has not ticked yet (its first tick is immediate)
    last_charging,  \* monitor_loop's last_charging
    stableSecs,     \* stable_since.elapsed(), in seconds, saturating at DebounceSecs
    monDebounced,   \* this tick took the `current_charging != last_charging` branch
    lastCall,       \* history: the method call the bus replied to last, when
                    \* recorded: the call, its ok and the last step it got to
    acOnline,       \* /sys/class/power_supply/<AC>/online: "1", "0", "absent"; or
                    \* "untracked", when any reading is allowed at any time
    flips,          \* history: changes of the charging status since monitor_loop
                    \* last read it; -1 when it did not read it or when untracked
    flipsRead       \* history: what flips was when this tick read the status; -1
                    \* outside a tick and when it did not read it

env == <<gpuPresent, driverBound, modulesLoaded, servicesUp, slots, procs>>
files == <<stateFile, autoFile>>
mon == <<monPc, monFirst, last_charging, stableSecs, monDebounced>>
vars == <<env, files, phase, host, probe, th, mon, lastCall, acOnline, flips, flipsRead>>

\* ------------------------------------------------------------ messages
MsgNotFound == "Nvidia GPU not found (already off?)"
MsgBlocked == "Blocking processes found"
MsgSuccess == "Success"
MsgFailLsof == "Failed checking processes"
MsgFailKill == "Failed to kill processes"
MsgFailSave == "Failed to save state"
MsgFailStop == "Failed to stop services"
MsgFailUnload == "Failed to unload modules"
MsgFailUnbind == "Failed to unbind driver"
MsgFailSlot == "Failed to power off slot"
MsgFailLoad == "Failed to load modules"
MsgFailStart == "Failed to start services"

\* lastCall when no history is kept, and before the first reply when it is
NoCall == [on |-> FALSE, op |-> "none", force |-> FALSE, ok |-> FALSE, at |-> "none"]
FirstCall == [NoCall EXCEPT !.on = TRUE]

\* host when the machine around the daemon is not followed
NoHost == [on |-> FALSE, loggedIn |-> FALSE, suspended |-> FALSE]

\* probe when no call of a pure function is followed
NoProbe == [fn |-> "none", arg |-> <<>>, ret |-> <<>>, src |-> <<>>]

NoRes == [ok |-> FALSE, msg |-> "", procs |-> {}]
\* The monitor's `res` before its first transition, when the results it gets
\* are recorded, and the Err(JoinError) it gets when its worker panicked.
FirstRes == [ok |-> TRUE, msg |-> "none yet", procs |-> {}]
ResLost == [ok |-> FALSE, msg |-> "Internal error", procs |-> {}]
Idle == [op |-> "none", force |-> FALSE, pc |-> "idle", seen |-> {}, log |-> <<>>, res |-> NoRes]

\* load_state(): the file reads "on"
load_state == stateFile = "on"
\* load_auto_state(): the file reads "true"
load_auto_state == autoFile = "true"

Min(a, b) == IF a < b THEN a ELSE b

\* system::get_charging_status(): the first readable candidate file reads
\* "1"; charging is assumed when none can be read.
get_charging_status(online) ==
    IF online = "absent" THEN TRUE ELSE online = "1"

\* ------------------------------------------------------------ engine plumbing
\* A worker is handed sleep_logic(kill_procs) / wake_logic().
BeginSleep(t, kill_procs) ==
    th' = [th EXCEPT ![t] = [Idle EXCEPT !.op = "sleep", !.force = kill_procs,
                                         !.pc = "find", !.res = th[t].res]]

BeginWake(t) ==
    th' = [th EXCEPT ![t] = [Idle EXCEPT !.op = "wake", !.pc = "w_save",
                                         !.res = th[t].res]]

\* As Return, but the monitor leaves its loop on a result that is not a
\* success.
Return_ExitOnFail(t, entries, ok, msg, ps) ==
    th' = [th EXCEPT ![t] =
            IF t = "mon" /\ ok
            THEN [Idle EXCEPT !.res = IF th[t].res = NoRes THEN NoRes
                                      ELSE [ok |-> ok, msg |-> msg, procs |-> ps]]
            ELSE [@ EXCEPT !.pc = "done",
                           !.log = @ \o entries,
                           !.res = [ok |-> ok, msg |-> msg, procs |-> ps]]]

\* The function returns (ok, msg, procs). A bus handler and run() hold the
\* result until they reply or join; monitor_loop only prints or drops it
\* and goes on with its loop body (the result stays in `res` where the
\* monitor's results are recorded).
Return(t, entries, ok, msg, ps) ==
    th' = [th EXCEPT ![t] =
            IF t = "mon"
            THEN [Idle EXCEPT !.res = IF th[t].res = NoRes THEN NoRes
                                      ELSE [ok |-> ok, msg |-> msg, procs |-> ps]]
            ELSE [@ EXCEPT !.pc = "done",
                           !.log = @ \o entries,
                           !.res = [ok |-> ok, msg |-> msg, procs |-> ps]]]

\* As AfterCall, but an Err is dropped and the function goes on.
AfterCall_IgnoreErr(t, step, ok, next, failmsg) ==
    IF next = "done"
    THEN Return(t, <<[step |-> step, ok |-> ok]>>, TRUE, MsgSuccess, {})
    ELSE th' = [th EXCEPT ![t].pc = next,
                          ![t].log = Append(@, [step |-> step, ok |-> ok])]

\* The call `step` returned Ok: go on with `next`; it returned Err: the
\* `if let Err(e) = ... { return (false, msg, vec![]) }` around it returns.
AfterCall(t, step, ok, next, failmsg) ==
    IF ok
    THEN IF next = "done"
         THEN Return(t, <<[step |-> step, ok |-> TRUE]>>, TRUE, MsgSuccess, {})
         ELSE th' = [th EXCEPT ![t].pc = next,
                               ![t].log = Append(@, [step |-> step, ok |-> TRUE])]
    ELSE Return(t, <<[step |-> step, ok |-> FALSE]>>, FALSE, failmsg, {})

\* The call `step` returned `ok` and the caller drops it (`let _ = ...`);
\* `more` are the calls that follow it unconditionally.
AfterIgnored(t, step, ok, more, next) ==
    th' = [th EXCEPT ![t].pc = next,
                     ![t].log = (@ \o <<[step |-> step, ok |-> ok]>>) \o more]

\* As SleepNext, with the driver unbound before the modules are unloaded.
SleepNext_UnbindFirst(pc) ==
    CASE pc = "kill" -> "save"
      [] pc = "save" -> "stop"
      [] pc = "stop" -> "unbind"
      [] pc = "unbind" -> "unload"
      [] pc = "unload" -> "slot"
      [] pc = "slot" -> "done"

\* The order of the calls of sleep_logic after the process check.
SleepNext(pc) ==
    CASE pc = "kill" -> "save"
      [] pc = "save" -> "stop"
      [] pc = "stop" -> "unload"
      [] pc = "unload" -> "unbind"
      [] pc = "unbind" -> "slot"
      [] pc = "slot" -> "done"

\* As WakeNext, with the modules loaded before the bus is rescanned.
WakeNext_LoadFirst(pc) ==
    CASE pc = "w_save" -> "w_slots"
      [] pc = "w_slots" -> "w_load"
      [] pc = "w_load" -> "w_rescan"
      [] pc = "w_rescan" -> "w_start"
      [] pc = "w_start" -> "done"

\* The order of the calls of wake_logic.
WakeNext(pc) ==
    CASE pc = "w_save" -> "w_slots"
      [] pc = "w_slots" -> "w_rescan"
      [] pc = "w_rescan" -> "w_load"
      [] pc = "w_load" -> "w_start"
      [] pc = "w_start" -> "done"

At(t, op, pc) == th[t].op = op /\ th[t].pc = pc

\* ------------------------------------------------------------ sleep_logic
\* As SleepFind, but a missing GPU is persisted as a sleep request.
SleepFind_SaveMissing(t) ==
    /\ At(t, "sleep", "find")
    /\ IF gpuPresent
       THEN th' = [th EXCEPT ![t].pc = "lsof"] /\ UNCHANGED stateFile
       ELSE Return(t, <<>>, TRUE, MsgNotFound, {}) /\ stateFile' = "on"
    /\ UNCHANGED <<env, autoFile, phase, host, probe, lastCall, acOnline, flips, flipsRead, mon>>

\* PciDevice::find_nvidia_gpu(); Err returns (true, "... not found", []).
SleepFind(t) ==
    /\ At(t, "sleep", "find")
    /\ IF gpuPresent
       THEN th' = [th EXCEPT ![t].pc = "lsof"]
       ELSE Return(t, <<>>, TRUE, MsgNotFound, {})
    /\ UNCHANGED <<env, files, phase, host, probe, lastCall, acOnline, flips, flipsRead, mon>>

\* As SleepCheck, but a soft sleep kills like a forced one.
SleepCheck_KillSoft(t) ==
    /\ At(t, "sleep", "lsof")
    /\ \E ok \in BOOLEAN :
        IF ~ok
        THEN Return(t, <<>>, FALSE, MsgFailLsof, {})
        ELSE IF procs # {}
             THEN th' = [th EXCEPT ![t].pc = "kill", ![t].seen = procs]
             ELSE th' = [th EXCEPT ![t].pc = "save"]
    /\ UNCHANGED <<env, files, phase, host, probe, lastCall, acOnline, flips, flipsRead, mon>>

\* As SleepCheck, but the state is saved as "on" before the blocked return.
SleepCheck_SaveFirst(t) ==
    /\ At(t, "sleep", "lsof")
    /\ \E ok \in BOOLEAN :
        IF ~ok
        THEN Return(t, <<>>, FALSE, MsgFailLsof, {}) /\ UNCHANGED stateFile
        ELSE IF procs # {}
             THEN IF ~th[t].force
                  THEN /\ Return(t, <<[step |-> "save_state", ok |-> TRUE]>>,
                                 FALSE, MsgBlocked, procs)
                       /\ stateFile' = "on"
                  ELSE /\ th' = [th EXCEPT ![t].pc = "kill", ![t].seen = procs]
                       /\ UNCHANGED stateFile
             ELSE th' = [th EXCEPT ![t].pc = "save"] /\ UNCHANGED stateFile
    /\ UNCHANGED <<env, autoFile, phase, host, probe, lastCall, acOnline, flips, flipsRead, mon>>

\* get_processes_using_nvidia(&nodes) and the match on its result.
SleepCheck(t) ==
    /\ At(t, "sleep", "lsof")
    /\ \E ok \in BOOLEAN :
        IF ~ok
        THEN Return(t, <<>>, FALSE, MsgFailLsof, {})
        ELSE IF procs # {}
             THEN IF ~th[t].force
                  THEN Return(t, <<>>, FALSE, MsgBlocked, procs)
                  ELSE th' = [th EXCEPT ![t].pc = "kill", ![t].seen = procs]
             ELSE th' = [th EXCEPT ![t].pc = "save"]
    /\ UNCHANGED <<env, files, phase, host, probe, lastCall, acOnline, flips, flipsRead, mon>>

\* system::kill_processes(&procs): kill -15 each pid, failures ignored, always
\* Ok; then the 500 ms pause. A signalled process may exit within the pause,
\* later, or not at all.
SleepKill(t) ==
    /\ At(t, "sleep", "kill")
    /\ \E exited \in SUBSET (th[t].seen \cap procs) : procs' = procs \ exited
    /\ AfterCall(t, "kill", TRUE, SleepNext("kill"), MsgFailKill)
    /\ UNCHANGED <<gpuPresent, driverBound, modulesLoaded, servicesUp, slots>>
    /\ UNCHANGED <<files, phase, host, probe, lastCall, acOnline, flips, flipsRead, mon>>

\* save_state(true)
SleepSave(t) ==
    /\ At(t, "sleep", "save")
    /\ \E ok \in BOOLEAN :
        /\ stateFile' = IF ok THEN "on" ELSE stateFile
        /\ AfterCall(t, "save_state", ok, SleepNext("save"), MsgFailSave)
    /\ UNCHANGED <<env, autoFile, phase, host, probe, lastCall, acOnline, flips, flipsRead, mon>>

\* As SleepStop, but units that do not stop are an Err.
SleepStop_Strict(t) ==
    /\ At(t, "sleep", "stop")
    /\ \E stopped \in BOOLEAN :
        /\ servicesUp' = IF stopped THEN FALSE ELSE servicesUp
        /\ AfterCall(t, "stop_services", stopped, SleepNext("stop"), MsgFailStop)
    /\ UNCHANGED <<gpuPresent, driverBound, modulesLoaded, slots, procs>>
    /\ UNCHANGED <<files, phase, host, probe, lastCall, acOnline, flips, flipsRead, mon>>

\* system::stop_services(): every systemctl failure is logged and dropped, the
\* function returns Ok(()) whether or not the units stopped.
SleepStop(t) ==
    /\ At(t, "sleep", "stop")
    /\ \E stopped \in BOOLEAN :
        servicesUp' = IF stopped THEN FALSE ELSE servicesUp
    /\ AfterCall(t, "stop_services", TRUE, SleepNext("stop"), MsgFailStop)
    /\ UNCHANGED <<gpuPresent, driverBound, modulesLoaded, slots, procs>>
    /\ UNCHANGED <<files, phase, host, probe, lastCall, acOnline, flips, flipsRead, mon>>

\* As SleepUnload, but the result of unload_modules() is dropped.
SleepUnload_IgnoreErr(t) ==
    /\ At(t, "sleep", "unload")
    /\ \E ok \in (IF procs = {} THEN BOOLEAN ELSE {FALSE}) :
        /\ modulesLoaded' = IF ok THEN FALSE ELSE modulesLoaded
        /\ driverBound' \in (IF ok THEN {FALSE, driverBound} ELSE {driverBound})
        /\ AfterCall_IgnoreErr(t, "unload_modules", ok, SleepNext("unload"), MsgFailUnload)
    /\ UNCHANGED <<gpuPresent, servicesUp, slots, procs>>
    /\ UNCHANGED <<files, phase, host, probe, lastCall, acOnline, flips, flipsRead, mon>>

\* system::unload_modules(): modprobe -r; a non-zero exit is an Err. The
\* kernel refuses while a process holds the device; removing the nvidia
\* modules unbinds their driver, a binding to another driver stays.
SleepUnload(t) ==
    /\ At(t, "sleep", "unload")
    /\ \E ok \in (IF procs = {} THEN BOOLEAN ELSE {FALSE}) :
        /\ modulesLoaded' = IF ok THEN FALSE ELSE modulesLoaded
        /\ driverBound' \in (IF ok THEN {FALSE, driverBound} ELSE {driverBound})
        /\ AfterCall(t, "unload_modules", ok, SleepNext("unload"), MsgFailUnload)
    /\ UNCHANGED <<gpuPresent, servicesUp, slots, procs>>
    /\ UNCHANGED <<files, phase, host, probe, lastCall, acOnline, flips, flipsRead, mon>>

\* As SleepUnbind, but the address is written to driver/unbind whether or not
\* the file exists: without a bound driver the write is an Err.
SleepUnbind_Strict(t) ==
    /\ At(t, "sleep", "unbind")
    /\ \E ok \in (IF ~gpuPresent \/ ~driverBound THEN {FALSE} ELSE BOOLEAN) :
        /\ driverBound' = IF ok THEN FALSE ELSE driverBound
        /\ AfterCall(t, "unbind_driver", ok, SleepNext("unbind"), MsgFailUnbind)
    /\ UNCHANGED <<gpuPresent, modulesLoaded, servicesUp, slots, procs>>
    /\ UNCHANGED <<files, phase, host, probe, lastCall, acOnline, flips, flipsRead, mon>>

\* gpu.unbind_driver(): Ok without a write when driver/unbind does not exist.
SleepUnbind(t) ==
    /\ At(t, "sleep", "unbind")
    /\ IF ~gpuPresent \/ ~driverBound
       THEN /\ AfterCall(t, "unbind_driver", TRUE, SleepNext("unbind"), MsgFailUnbind)
            /\ UNCHANGED driverBound
       ELSE \E ok \in BOOLEAN :
            /\ driverBound' = IF ok THEN FALSE ELSE driverBound
            /\ AfterCall(t, "unbind_driver", ok, SleepNext("unbind"), MsgFailUnbind)
    /\ UNCHANGED <<gpuPresent, modulesLoaded, servicesUp, slots, procs>>
    /\ UNCHANGED <<files, phase, host, probe, lastCall, acOnline, flips, flipsRead, mon>>

\* As SleepSlot, but a failed slot write is only reported, as in the
\* stand-alone on_command.
SleepSlot_Lenient(t) ==
    /\ At(t, "sleep", "slot")
    /\ \E ok \in BOOLEAN :
        /\ slots' = IF ok THEN [slots EXCEPT ![GpuSlot] = 0] ELSE slots
        /\ gpuPresent' = IF ok THEN FALSE ELSE gpuPresent
        /\ driverBound' = IF ok THEN FALSE ELSE driverBound
        /\ procs' = IF ok THEN {} ELSE procs
        /\ Return(t, <<[step |-> "slot_power_off", ok |-> ok]>>, TRUE, MsgSuccess, {})
    /\ UNCHANGED <<modulesLoaded, servicesUp>>
    /\ UNCHANGED <<files, phase, host, probe, lastCall, acOnline, flips, flipsRead, mon>>

\* gpu.set_slot_power(false): Err when the slot or its power file is missing
\* or the write fails; a powered-off slot takes the device off the bus.
SleepSlot(t) ==
    /\ At(t, "sleep", "slot")
    /\ \E ok \in BOOLEAN :
        /\ slots' = IF ok THEN [slots EXCEPT ![GpuSlot] = 0] ELSE slots
        /\ gpuPresent' = IF ok THEN FALSE ELSE gpuPresent
        /\ driverBound' = IF ok THEN FALSE ELSE driverBound
        /\ procs' = IF ok THEN {} ELSE procs
        /\ AfterCall(t, "slot_power_off", ok, SleepNext("slot"), MsgFailSlot)
    /\ UNCHANGED <<modulesLoaded, servicesUp>>
    /\ UNCHANGED <<files, phase, host, probe, lastCall, acOnline, flips, flipsRead, mon>>

\* ------------------------------------------------------------ wake_logic
\* As WakeSave, but the state file is left as it is.
WakeSave_Keep(t) ==
    /\ At(t, "wake", "w_save")
    /\ \E ok \in BOOLEAN :
        /\ stateFile' = stateFile
        /\ AfterCall(t, "save_state", ok, WakeNext("w_save"), MsgFailSave)
    /\ UNCHANGED <<env, autoFile, phase, host, probe, lastCall, acOnline, flips, flipsRead, mon>>

\* save_state(false)
WakeSave(t) ==
    /\ At(t, "wake", "w_save")
    /\ \E ok \in BOOLEAN :
        /\ stateFile' = IF ok THEN "off" ELSE stateFile
        /\ AfterCall(t, "save_state", ok, WakeNext("w_save"), MsgFailSave)
    /\ UNCHANGED <<env, autoFile, phase, host, probe, lastCall, acOnline, flips, flipsRead, mon>>

\* The loop over /sys/bus/pci/slots: write "1" to every power file reading
\* "0"; `let _ =` drops each write's result.
WakeSlots(t) ==
    /\ At(t, "wake", "w_slots")
    /\ LET off == {s \in Slots : slots[s] = 0}
       IN  \E written \in SUBSET off :
            /\ slots' = [s \in Slots |-> IF s \in written THEN 1 ELSE slots[s]]
            /\ AfterIgnored(t, "slot_power_on", written = off, <<>>, WakeNext("w_slots"))
    /\ UNCHANGED <<gpuPresent, driverBound, modulesLoaded, servicesUp, procs>>
    /\ UNCHANGED <<files, phase, host, probe, lastCall, acOnline, flips, flipsRead, mon>>

\* let _ = PciDevice::rescan(); then the 1 s pause. The device comes back
\* when the rescan went through and its slot has power.
WakeRescan(t) ==
    /\ At(t, "wake", "w_rescan")
    /\ \E ok \in BOOLEAN :
        /\ gpuPresent' = IF ok /\ slots[GpuSlot] = 1 THEN TRUE ELSE gpuPresent
        /\ AfterIgnored(t, "rescan", ok, <<[step |-> "wait_1s", ok |-> TRUE]>>,
                        WakeNext("w_rescan"))
    /\ UNCHANGED <<driverBound, modulesLoaded, servicesUp, slots, procs>>
    /\ UNCHANGED <<files, phase, host, probe, lastCall, acOnline, flips, flipsRead, mon>>

\* system::load_modules(): modprobe; a non-zero exit is an Err. The loaded
\* driver binds a present, unbound device.
WakeLoad(t) ==
    /\ At(t, "wake", "w_load")
    /\ \E ok \in BOOLEAN :
        /\ modulesLoaded' = IF ok THEN TRUE ELSE modulesLoaded
        /\ driverBound' = (driverBound \/ (ok /\ gpuPresent))
        /\ AfterCall(t, "load_modules", ok, WakeNext("w_load"), MsgFailLoad)
    /\ UNCHANGED <<gpuPresent, servicesUp, slots, procs>>
    /\ UNCHANGED <<files, phase, host, probe, lastCall, acOnline, flips, flipsRead, mon>>

\* As WakeStart, but units that do not start are an Err.
WakeStart_Strict(t) ==
    /\ At(t, "wake", "w_start")
    /\ \E started \in BOOLEAN :
        /\ servicesUp' = IF started THEN TRUE ELSE servicesUp
        /\ AfterCall(t, "start_services", started, WakeNext("w_start"), MsgFailStart)
    /\ UNCHANGED <<gpuPresent, driverBound, modulesLoaded, slots, procs>>
    /\ UNCHANGED <<files, phase, host, probe, lastCall, acOnline, flips, flipsRead, mon>>

\* system::start_services(): like stop_services, always Ok(()).
WakeStart(t) ==
    /\ At(t, "wake", "w_start")
    /\ \E started \in BOOLEAN :
        servicesUp' = IF started THEN TRUE ELSE servicesUp
    /\ AfterCall(t, "start_services", TRUE, WakeNext("w_start"), MsgFailStart)
    /\ UNCHANGED <<gpuPresent, driverBound, modulesLoaded, slots, procs>>
    /\ UNCHANGED <<files, phase, host, probe, lastCall, acOnline, flips, flipsRead, mon>>

\* ------------------------------------------------------------ bus handlers
\* The object server is bound once run() is past the restore; it runs one
\* method call at a time, each on a blocking worker.
BusFree == phase = "serving" /\ th["bus"].pc = "idle"

\* NvSleepifyManager::sleep(kill_procs): spawn_blocking(sleep_logic(kill_procs))
BusSleep(kill_procs) ==
    /\ BusFree
    /\ BeginSleep("bus", kill_procs)
    /\ UNCHANGED <<env, files, phase, host, probe, lastCall, acOnline, flips, flipsRead, mon>>

\* NvSleepifyManager::wake(): spawn_blocking(wake_logic())
BusWake ==
    /\ BusFree
    /\ BeginWake("bus")
    /\ UNCHANGED <<env, files, phase, host, probe, lastCall, acOnline, flips, flipsRead, mon>>

\* NvSleepifyManager::set_auto(enable): set_auto_logic writes the auto file
\* and returns a message; it runs no transition.
BusSetAuto(enable) ==
    /\ BusFree
    /\ \E ok \in BOOLEAN :
        /\ autoFile' = IF ok THEN (IF enable THEN "true" ELSE "false") ELSE autoFile
        /\ th' = [th EXCEPT !["bus"] =
                    [Idle EXCEPT !.op = "set_auto", !.pc = "done",
                                 !.res = [ok |-> ok,
                                          msg |-> IF ~ok THEN "Failed to save auto state"
                                                  ELSE IF enable
                                                  THEN "Auto mode enabled. Monitor will manage GPU power."
                                                  ELSE "Auto mode disabled.",
                                          procs |-> {}]]]
    /\ UNCHANGED <<env, stateFile, phase, host, probe, lastCall, acOnline, flips, flipsRead, mon>>

\* The handler's future resolves and the reply goes out.
BusReply ==
    /\ th["bus"].pc = "done"
    /\ th' = [th EXCEPT !["bus"] = Idle]
    /\ lastCall' = IF lastCall.on
                   THEN [on |-> TRUE, op |-> th["bus"].op, force |-> th["bus"].force,
                         ok |-> th["bus"].res.ok,
                         at |-> IF th["bus"].log = <<>> THEN "none"
                                ELSE th["bus"].log[Len(th["bus"].log)].step]
                   ELSE lastCall
    /\ UNCHANGED <<env, files, phase, host, probe, mon, acOnline, flips, flipsRead>>

\* ------------------------------------------------------------ the interface
\* The member name the interface macros give a Rust method (snake_case to
\* PascalCase), for the methods of the daemon's object and of the client's
\* proxy.
MemberName ==
    [status |-> "Status", info |-> "Info", sleep |-> "Sleep", wake |-> "Wake",
     set_auto |-> "SetAuto", set_mode |-> "SetMode",
     set_restore_delay |-> "SetRestoreDelay"]

\* impl NvSleepifyManager in the daemon: argument and reply signatures
DaemonMethods ==
    [status   |-> [in |-> "",  out |-> "s"],
     info     |-> [in |-> "",  out |-> "(bbsa(ss))"],
     sleep    |-> [in |-> "b", out |-> "(bsa(ss))"],
     wake     |-> [in |-> "",  out |-> "(bs)"],
     set_auto |-> [in |-> "b", out |-> "s"]]

\* trait NvSleepifyManager of the control client's proxy
ClientMethods ==
    [status            |-> [in |-> "",  out |-> "s"],
     info              |-> [in |-> "",  out |-> "(ssa(ss))"],
     set_mode          |-> [in |-> "s", out |-> "(bsa(ss))"],
     set_restore_delay |-> [in |-> "u", out |-> "s"]]

\* the error the object server replies with to a call of a member it does
\* not export with the call's signature
ErrUnknownMethod == "org.freedesktop.DBus.Error.UnknownMethod"
\* format!("Internal error: {}", e), the JoinError's text left out
MsgInternal == "Internal error: "

\* the daemon's methods a call of the client's method c is dispatched to
Handlers(c) ==
    {d \in DOMAIN DaemonMethods :
        /\ MemberName[d] = MemberName[c]
        /\ DaemonMethods[d].in = ClientMethods[c].in}

\* status_logic(): the lines of the text it returns, for what it reads
status_logic(auto_enabled, found, nodes, power_state, ps) ==
    <<IF auto_enabled THEN "Auto Mode:   Enabled" ELSE "Auto Mode:   Disabled">>
    \o (IF found
        THEN <<"Nvidia GPU Found:",
               "  PCI Address: 0000:01:00.0",
               "  PCI Path:    \"/sys/bus/pci/devices/0000:01:00.0\"",
               IF nodes THEN "  Device Nodes: /dev/dri/card, /dev/dri/render"
               ELSE "  Device Nodes: None (Driver unbound or card off)",
               "  Power State: " \o power_state>>
             \o (IF ps # {}
                 THEN <<"  Status: Active (In Use)",
                        "  Blocking Processes: " \o ToString(Cardinality(ps))>>
                 ELSE IF power_state = "D3cold" THEN <<"  Status: Off / D3cold">>
                 ELSE IF power_state = "D3hot" THEN <<"  Status: Suspended">>
                 ELSE <<"  Status: Idle / D0">>)
        ELSE <<"No Nvidia GPU running on PCI bus (or currently hidden/powered off).",
               "If you previously ran 'nvsleepify on', run 'nvsleepify off' to enable it.">>)

\* info_logic(): (sleep_enabled, auto_enabled, power_state, blocking_processes)
info_logic(sleep_enabled, auto_enabled, found, power_state, ps) ==
    [ok |-> TRUE,
     sleep_enabled |-> sleep_enabled,
     auto_enabled |-> auto_enabled,
     msg |-> IF found THEN power_state ELSE "NotFound",
     procs |-> IF found THEN ps ELSE {}]

\* NvSleepifyManager::status(): spawn_blocking(status_logic()). The list of
\* processes is empty when lsof could not be run.
BusStatus ==
    /\ BusFree
    /\ \E power_state \in PowerStates, lsof \in BOOLEAN :
        th' = [th EXCEPT !["bus"] =
                [Idle EXCEPT !.op = "status", !.pc = "done",
                             !.res = [ok |-> TRUE,
                                      msg |-> status_logic(load_auto_state, gpuPresent,
                                                  driverBound, power_state,
                                                  IF lsof THEN procs ELSE {}),
                                      procs |-> {}]]]
    /\ UNCHANGED <<env, files, phase, host, probe, lastCall, acOnline, flips, flipsRead, mon>>

\* As BusInfo, but a slot found powered off is powered on to look at the GPU.
BusInfo_PowerOn ==
    /\ BusFree
    /\ \E power_state \in PowerStates, lsof \in BOOLEAN :
        th' = [th EXCEPT !["bus"] =
                [Idle EXCEPT !.op = "info", !.pc = "done",
                             !.res = info_logic(load_state, load_auto_state, gpuPresent,
                                                power_state, IF lsof THEN procs ELSE {})]]
    /\ slots' = [slots EXCEPT ![GpuSlot] = 1]
    /\ UNCHANGED <<gpuPresent, driverBound, modulesLoaded, servicesUp, procs>>
    /\ UNCHANGED <<files, phase, host, probe, lastCall, acOnline, flips, flipsRead, mon>>

\* NvSleepifyManager::info(): spawn_blocking(info_logic())
BusInfo ==
    /\ BusFree
    /\ \E power_state \in PowerStates, lsof \in BOOLEAN :
        th' = [th EXCEPT !["bus"] =
                [Idle EXCEPT !.op = "info", !.pc = "done",
                             !.res = info_logic(load_state, load_auto_state, gpuPresent,
                                                power_state, IF lsof THEN procs ELSE {})]]
    /\ UNCHANGED <<env, files, phase, host, probe, lastCall, acOnline, flips, flipsRead, mon>>

\* The control client calls method c of its proxy: the object server
\* dispatches it to the method exported under that member name with that
\* argument signature, and replies with an error when there is none.
ClientCall(c) ==
    IF Handlers(c) = {}
    THEN /\ BusFree
         /\ th' = [th EXCEPT !["bus"] =
                    [Idle EXCEPT !.op = c, !.pc = "done",
                                 !.res = [ok |-> FALSE, msg |-> ErrUnknownMethod,
                                          procs |-> {}]]]
         /\ UNCHANGED <<env, files, phase, host, probe, lastCall, acOnline, flips, flipsRead, mon>>
    ELSE \/ "status" \in Handlers(c) /\ BusStatus
         \/ "info" \in Handlers(c) /\ BusInfo

\* what a handler returns for the Err(JoinError) of its worker
InternalReply(op) ==
    IF op = "info"
    THEN [ok |-> FALSE, sleep_enabled |-> FALSE, auto_enabled |-> FALSE,
          msg |-> MsgInternal, procs |-> {}]
    ELSE [ok |-> FALSE, msg |-> MsgInternal, procs |-> {}]

\* As BusWorkerFail, but the handler unwraps the worker's result: it panics
\* with it and the call is left without a reply.
BusWorkerFail_Unwrap ==
    /\ phase = "serving"
    /\ \/ /\ th["bus"].pc \notin {"idle", "done"}
          /\ th' = [th EXCEPT !["bus"].pc = "lost"]
       \/ /\ th["bus"].pc = "idle"
          /\ \E op \in {"status", "info", "set_auto"} :
                th' = [th EXCEPT !["bus"] = [Idle EXCEPT !.op = op, !.pc = "lost"]]
    /\ UNCHANGED <<env, files, phase, host, probe, lastCall, acOnline, flips, flipsRead, mon>>

\* The worker of a method call panics, in the middle of sleep_logic or
\* wake_logic or in one of the short functions: spawn_blocking(..).await is
\* an Err and the handler's unwrap_or_else makes the reply out of it.
BusWorkerFail ==
    /\ phase = "serving"
    /\ \/ /\ th["bus"].pc \notin {"idle", "done"}
          /\ th' = [th EXCEPT !["bus"].pc = "done",
                              !["bus"].res = InternalReply(th["bus"].op)]
       \/ /\ th["bus"].pc = "idle"
          /\ \E op \in {"status", "info", "set_auto"} :
                th' = [th EXCEPT !["bus"] = [Idle EXCEPT !.op = op, !.pc = "done",
                                                         !.res = InternalReply(op)]]
    /\ UNCHANGED <<env, files, phase, host, probe, lastCall, acOnline, flips, flipsRead, mon>>

\* ------------------------------------------------------------ run()
\* restore_logic(): nothing when the state file is missing or unreadable,
\* sleep_logic(true) when it reads "on", wake_logic() otherwise.
Restore ==
    /\ phase = "restore"
    /\ th["main"].pc = "idle"
    /\ IF stateFile = "absent"
       THEN th' = [th EXCEPT !["main"].pc = "done"]
       ELSE \E readable \in BOOLEAN :
            IF ~readable THEN th' = [th EXCEPT !["main"].pc = "done"]
            ELSE IF stateFile = "on" THEN BeginSleep("main", TRUE)
            ELSE BeginWake("main")
    /\ UNCHANGED <<env, files, phase, host, probe, lastCall, acOnline, flips, flipsRead, mon>>

\* The restore job is joined; tokio::spawn(monitor_loop()) and the bus
\* connection follow. monitor_loop sets last_charging to what
\* get_charging_status() reads (`charging`) and stable_since to now before
\* its first tick.
RestoreJoin(charging) ==
    /\ phase = "restore"
    /\ th["main"].pc = "done"
    /\ th' = [th EXCEPT !["main"] = Idle]
    /\ phase' = "serving"
    /\ last_charging' = charging
    /\ stableSecs' = 0
    /\ flips' = IF acOnline = "untracked" THEN flips ELSE 0
    /\ UNCHANGED <<env, files, host, probe, monPc, monFirst, monDebounced, lastCall, acOnline, flipsRead>>

\* ------------------------------------------------------------ monitor_loop
\* As MonTick, but a reading counts as stable once it has held for one tick.
MonTick_TickStable(charging) ==
    /\ phase = "serving"
    /\ monPc = "tick"
    /\ th["mon"].pc = "idle"
    /\ monFirst' = FALSE
    /\ monPc' = "enforce"
    /\ flips' = IF acOnline = "untracked" THEN flips
                ELSE IF load_auto_state THEN 0 ELSE -1
    /\ flipsRead' = IF load_auto_state THEN flips ELSE -1
    /\ LET elapsed == IF monFirst THEN stableSecs
                      ELSE Min(stableSecs + TickSecs, DebounceSecs)
       IN  IF ~load_auto_state
           THEN /\ stableSecs' = elapsed
                /\ monDebounced' = FALSE
                /\ UNCHANGED <<last_charging, th>>
           ELSE IF charging # last_charging
           THEN /\ last_charging' = charging
                /\ stableSecs' = 0
                /\ monDebounced' = TRUE
                /\ UNCHANGED th
           ELSE /\ stableSecs' = elapsed
                /\ monDebounced' = FALSE
                /\ UNCHANGED last_charging
                /\ IF elapsed >= TickSecs
                   THEN IF charging
                        THEN IF load_state THEN BeginWake("mon") ELSE UNCHANGED th
                        ELSE IF ~load_state THEN BeginSleep("mon", FALSE) ELSE UNCHANGED th
                   ELSE UNCHANGED th
    /\ UNCHANGED <<env, files, phase, host, probe, lastCall, acOnline>>

\* As MonTick, but a charger that changed since the last read counts as a
\* changed reading even if it changed back.
MonTick_EdgeTriggered(charging) ==
    /\ phase = "serving"
    /\ monPc = "tick"
    /\ th["mon"].pc = "idle"
    /\ monFirst' = FALSE
    /\ monPc' = "enforce"
    /\ flips' = IF acOnline = "untracked" THEN flips
                ELSE IF load_auto_state THEN 0 ELSE -1
    /\ flipsRead' = IF load_auto_state THEN flips ELSE -1
    /\ LET elapsed == IF monFirst THEN stableSecs
                      ELSE Min(stableSecs + TickSecs, DebounceSecs)
       IN  IF ~load_auto_state
           THEN /\ stableSecs' = elapsed
                /\ monDebounced' = FALSE
                /\ UNCHANGED <<last_charging, th>>
           ELSE IF charging # last_charging \/ flips > 0
           THEN /\ last_charging' = charging
                /\ stableSecs' = 0
                /\ monDebounced' = TRUE
                /\ UNCHANGED th
           ELSE /\ stableSecs' = elapsed
                /\ monDebounced' = FALSE
                /\ UNCHANGED last_charging
                /\ IF elapsed >= DebounceSecs
                   THEN IF charging
                        THEN IF load_state THEN BeginWake("mon") ELSE UNCHANGED th
                        ELSE IF ~load_state THEN BeginSleep("mon", FALSE) ELSE UNCHANGED th
                   ELSE UNCHANGED th
    /\ UNCHANGED <<env, files, phase, host, probe, lastCall, acOnline>>

\* As MonTick, but a tick that finds the reading not yet stable restarts the
\* stability clock.
MonTick_Restart(charging) ==
    /\ phase = "serving"
    /\ monPc = "tick"
    /\ th["mon"].pc = "idle"
    /\ monFirst' = FALSE
    /\ monPc' = "enforce"
    /\ flips' = IF acOnline = "untracked" THEN flips
                ELSE IF load_auto_state THEN 0 ELSE -1
    /\ flipsRead' = IF load_auto_state THEN flips ELSE -1
    /\ LET elapsed == IF monFirst THEN stableSecs
                      ELSE Min(stableSecs + TickSecs, DebounceSecs)
       IN  IF ~load_auto_state
           THEN /\ stableSecs' = elapsed
                /\ monDebounced' = FALSE
                /\ UNCHANGED <<last_charging, th>>
           ELSE IF charging # last_charging
           THEN /\ last_charging' = charging
                /\ stableSecs' = 0
                /\ monDebounced' = TRUE
                /\ UNCHANGED th
           ELSE /\ stableSecs' = IF elapsed >= DebounceSecs THEN elapsed ELSE 0
                /\ monDebounced' = FALSE
                /\ UNCHANGED last_charging
                /\ IF elapsed >= DebounceSecs
                   THEN IF charging
                        THEN IF load_state THEN BeginWake("mon") ELSE UNCHANGED th
                        ELSE IF ~load_state THEN BeginSleep("mon", FALSE) ELSE UNCHANGED th
                   ELSE UNCHANGED th
    /\ UNCHANGED <<env, files, phase, host, probe, lastCall, acOnline>>

\* interval.tick() and the auto/charging block, `charging` being what
\* get_charging_status() reads on this tick: debounce a changed reading, and
\* once it has been stable for DebounceSecs wake when plugged in with sleep
\* enabled, soft-sleep when unplugged with sleep disabled.
MonTick(charging) ==
    /\ phase = "serving"
    /\ monPc = "tick"
    /\ th["mon"].pc = "idle"
    /\ monFirst' = FALSE
    /\ monPc' = "enforce"
    /\ flips' = IF acOnline = "untracked" THEN flips
                ELSE IF load_auto_state THEN 0 ELSE -1
    /\ flipsRead' = IF load_auto_state THEN flips ELSE -1
    /\ LET elapsed == IF monFirst THEN stableSecs
                      ELSE Min(stableSecs + TickSecs, DebounceSecs)
       IN  IF ~load_auto_state
           THEN /\ stableSecs' = elapsed
                /\ monDebounced' = FALSE
                /\ UNCHANGED <<last_charging, th>>
           ELSE IF charging # last_charging
           THEN /\ last_charging' = charging
                /\ stableSecs' = 0
                /\ monDebounced' = TRUE
                /\ UNCHANGED th
           ELSE /\ stableSecs' = elapsed
                /\ monDebounced' = FALSE
                /\ UNCHANGED last_charging
                /\ IF elapsed >= DebounceSecs
                   THEN IF charging
                        THEN IF load_state THEN BeginWake("mon") ELSE UNCHANGED th
                        ELSE IF ~load_state THEN BeginSleep("mon", FALSE) ELSE UNCHANGED th
                   ELSE UNCHANGED th
    /\ UNCHANGED <<env, files, phase, host, probe, lastCall, acOnline>>

\* As should_sleep, but an awake GPU is put to sleep whatever the state file.
should_sleep_AnyState(sleep_enabled, found, power_state) ==
    found /\ power_state \in {"D0", "Unknown"}

\* As should_sleep, but an unreadable power state is not taken for awake.
should_sleep_D0Only(sleep_enabled, found, power_state) ==
    sleep_enabled /\ found /\ power_state = "D0"

\* should_sleep: sleep is enabled and the GPU is found with power_state D0 or
\* Unknown.
should_sleep(sleep_enabled, found, power_state) ==
    sleep_enabled /\ found /\ power_state \in {"D0", "Unknown"}

\* The should_sleep closure, `power_state` being what gpu.get_power_state()
\* reads, and the forced sleep it triggers.
MonEnforce(power_state) ==
    /\ phase = "serving"
    /\ monPc = "enforce"
    /\ th["mon"].pc = "idle"
    /\ monPc' = "tick"
    /\ monDebounced' = FALSE
    /\ flipsRead' = -1
    /\ IF should_sleep(load_state, gpuPresent, power_state)
       THEN BeginSleep("mon", TRUE)
       ELSE UNCHANGED th
    /\ UNCHANGED <<env, files, phase, host, probe, lastCall, acOnline, flips>>
    /\ UNCHANGED <<monFirst, last_charging, stableSecs>>

\* ------------------------------------------------------------ environment
\* A process opens an Nvidia device node.
ProcOpen(p) ==
    /\ gpuPresent /\ driverBound
    /\ p \notin procs
    /\ procs' = procs \cup {p}
    /\ UNCHANGED <<gpuPresent, driverBound, modulesLoaded, servicesUp, slots>>
    /\ UNCHANGED <<files, phase, host, probe, lastCall, acOnline, flips, flipsRead, th, mon>>

\* A process holding the device exits, on its own or on the SIGTERM it got.
ProcExit(p) ==
    /\ p \in procs
    /\ procs' = procs \ {p}
    /\ UNCHANGED <<gpuPresent, driverBound, modulesLoaded, servicesUp, slots>>
    /\ UNCHANGED <<files, phase, host, probe, lastCall, acOnline, flips, flipsRead, th, mon>>

\* The charger is plugged in or pulled: the supply's online file changes.
Plug ==
    /\ acOnline \in {"0", "1"}
    /\ flips < MaxFlips
    /\ acOnline' = IF acOnline = "1" THEN "0" ELSE "1"
    /\ flips' = IF flips >= 0 THEN flips + 1 ELSE flips
    /\ UNCHANGED <<env, files, phase, host, probe, th, mon, lastCall, flipsRead>>

\* ------------------------------------------------------------ specification
Init ==
    /\ gpuPresent = TRUE
    /\ driverBound = TRUE
    /\ modulesLoaded = TRUE
    /\ servicesUp = TRUE
    /\ slots \in [Slots -> {0, 1}]
    /\ slots[GpuSlot] = 1
    /\ procs = {}
    /\ stateFile \in {"absent", "on", "off"}
    /\ autoFile \in {"absent", "true"}
    /\ phase = "restore"
    /\ host = NoHost
    /\ probe = NoProbe
    /\ th = [t \in Threads |-> Idle]
    /\ monPc = "tick"
    /\ monFirst = TRUE
    /\ last_charging = TRUE
    /\ stableSecs = 0
    /\ monDebounced = FALSE
    /\ lastCall = NoCall
    /\ acOnline = "untracked"
    /\ flips = -1
    /\ flipsRead = -1

Engine ==
    \E t \in Threads :
        \/ SleepFind(t)
        \/ SleepCheck(t)
        \/ SleepKill(t)
        \/ SleepSave(t)
        \/ SleepStop(t)
        \/ SleepUnload(t)
        \/ SleepUnbind(t)
        \/ SleepSlot(t)
        \/ WakeSave(t)
        \/ WakeSlots(t)
        \/ WakeRescan(t)
        \/ WakeLoad(t)
        \/ WakeStart(t)

Next ==
    \/ Engine
    \/ \E k \in BOOLEAN : BusSleep(k)
    \/ BusWake
    \/ \E e \in BOOLEAN : BusSetAuto(e)
    \/ BusReply
    \/ Restore
    \/ \E c \in BOOLEAN : RestoreJoin(c)
    \/ \E c \in BOOLEAN : MonTick(c)
    \/ \E ps \in PowerStates : MonEnforce(ps)
    \/ \E p \in Pids : ProcOpen(p)
    \/ \E p \in Pids : ProcExit(p)

Spec == Init /\ [][Next]_vars

\* The request path on its own: the daemon from its start, serving method
\* calls one after another and recording the last one replied to, with the
\* monitor's ticks left out.
InitCalls ==
    /\ gpuPresent = TRUE
    /\ driverBound = TRUE
    /\ modulesLoaded = TRUE
    /\ servicesUp = TRUE
    /\ slots \in [Slots -> {0, 1}]
    /\ slots[GpuSlot] = 1
    /\ procs = {}
    /\ stateFile \in {"absent", "on", "off"}
    /\ autoFile \in {"absent", "true"}
    /\ phase = "restore"
    /\ host = NoHost
    /\ probe = NoProbe
    /\ th = [t \in Threads |-> Idle]
    /\ monPc = "tick"
    /\ monFirst = TRUE
    /\ last_charging = TRUE
    /\ stableSecs = 0
    /\ monDebounced = FALSE
    /\ lastCall = FirstCall
    /\ acOnline = "untracked"
    /\ flips = -1
    /\ flipsRead = -1

NextCalls ==
    \/ Engine
    \/ \E k \in BOOLEAN : BusSleep(k)
    \/ BusWake
    \/ \E e \in BOOLEAN : BusSetAuto(e)
    \/ BusReply
    \/ Restore
    \/ \E c \in BOOLEAN : RestoreJoin(c)
    \/ \E p \in Pids : ProcOpen(p)
    \/ \E p \in Pids : ProcExit(p)

SpecCalls == InitCalls /\ [][NextCalls]_vars

\* The bus on its own: as SpecCalls, with the read-only methods, the calls
\* of the control client and panicking workers.
NextBus ==
    \/ Engine
    \/ \E k \in BOOLEAN : BusSleep(k)
    \/ BusWake
    \/ \E e \in BOOLEAN : BusSetAuto(e)
    \/ \E c \in DOMAIN ClientMethods : ClientCall(c)
    \/ BusWorkerFail
    \/ BusReply
    \/ Restore
    \/ \E c \in BOOLEAN : RestoreJoin(c)
    \/ \E p \in Pids : ProcOpen(p)
    \/ \E p \in Pids : ProcExit(p)

SpecBus == InitCalls /\ [][NextBus]_vars

\* The monitor on its own, with the charger followed: the daemon from its
\* start, the monitor reading the supply's online file, and of the method
\* calls only the one that switches auto mode.
InitMon ==
    /\ gpuPresent = TRUE
    /\ driverBound = TRUE
    /\ modulesLoaded = TRUE
    /\ servicesUp = TRUE
    /\ slots \in [Slots -> {0, 1}]
    /\ slots[GpuSlot] = 1
    /\ procs = {}
    /\ stateFile \in {"absent", "on", "off"}
    /\ autoFile \in {"absent", "true"}
    /\ phase = "restore"
    /\ host = NoHost
    /\ probe = NoProbe
    /\ th = [t \in Threads |-> Idle]
    /\ monPc = "tick"
    /\ monFirst = TRUE
    /\ last_charging = TRUE
    /\ stableSecs = 0
    /\ monDebounced = FALSE
    /\ lastCall = NoCall
    /\ acOnline \in {"0", "1", "absent"}
    /\ flips = -1
    /\ flipsRead = -1

NextMon ==
    \/ Engine
    \/ \E e \in BOOLEAN : BusSetAuto(e)
    \/ BusReply
    \/ Restore
    \/ RestoreJoin(get_charging_status(acOnline))
    \/ MonTick(get_charging_status(acOnline))
    \/ \E ps \in PowerStates : MonEnforce(ps)
    \/ Plug
    \/ \E p \in Pids : ProcOpen(p)
    \/ \E p \in Pids : ProcExit(p)

SpecMon == InitMon /\ [][NextMon]_vars

\* Manual sleeps under the monitor, with the charger followed: the daemon
\* from its first start (no state file yet) in auto mode and on the charger,
\* clients asking for Sleep only, the last request replied to recorded, and
\* the monitor reading the supply's online file, which stays as it is.
InitManual ==
    /\ gpuPresent = TRUE
    /\ driverBound = TRUE
    /\ modulesLoaded = TRUE
    /\ servicesUp = TRUE
    /\ slots \in [Slots -> {0, 1}]
    /\ slots[GpuSlot] = 1
    /\ procs = {}
    /\ stateFile = "absent"
    /\ autoFile = "true"
    /\ phase = "restore"
    /\ host = NoHost
    /\ probe = NoProbe
    /\ th = [t \in Threads |-> Idle]
    /\ monPc = "tick"
    /\ monFirst = TRUE
    /\ last_charging = TRUE
    /\ stableSecs = 0
    /\ monDebounced = FALSE
    /\ lastCall = FirstCall
    /\ acOnline = "1"
    /\ flips = -1
    /\ flipsRead = -1

NextManual ==
    \/ Engine
    \/ \E k \in BOOLEAN : BusSleep(k)
    \/ BusReply
    \/ Restore
    \/ RestoreJoin(get_charging_status(acOnline))
    \/ MonTick(get_charging_status(acOnline))
    \/ \E ps \in PowerStates : MonEnforce(ps)
    \/ \E p \in Pids : ProcOpen(p)
    \/ \E p \in Pids : ProcExit(p)

SpecManual == InitManual /\ [][NextManual]_vars

\* The read-only methods under the monitor: the daemon from its start,
\* clients asking for Status and Info only, while the monitor ticks and runs
\* its transitions.
NextRead ==
    \/ Engine
    \/ BusStatus
    \/ BusInfo
    \/ BusReply
    \/ Restore
    \/ \E c \in BOOLEAN : RestoreJoin(c)
    \/ \E c \in BOOLEAN : MonTick(c)
    \/ \E ps \in PowerStates : MonEnforce(ps)
    \/ \E p \in Pids : ProcOpen(p)
    \/ \E p \in Pids : ProcExit(p)

SpecRead == Init /\ [][NextRead]_vars

\* The monitor under its scheduler: the daemon from its start with no method
\* calls, the results the monitor gets recorded, and its worker allowed to
\* panic in the middle of a transition.
MonWorkerFail ==
    /\ phase = "serving"
    /\ th["mon"].pc \notin {"idle", "done"}
    /\ th["mon"].res # NoRes
    /\ th' = [th EXCEPT !["mon"] = [Idle EXCEPT !.res = ResLost]]
    /\ UNCHANGED <<env, files, phase, host, probe, mon, lastCall, acOnline, flips, flipsRead>>

InitLive ==
    /\ gpuPresent = TRUE
    /\ driverBound = TRUE
    /\ modulesLoaded = TRUE
    /\ servicesUp = TRUE
    /\ slots \in [Slots -> {0, 1}]
    /\ slots[GpuSlot] = 1
    /\ procs = {}
    /\ stateFile \in {"absent", "on", "off"}
    /\ autoFile \in {"absent", "true"}
    /\ phase = "restore"
    /\ host = NoHost
    /\ probe = NoProbe
    /\ th = [t \in Threads |-> IF t = "mon" THEN [Idle EXCEPT !.res = FirstRes] ELSE Idle]
    /\ monPc = "tick"
    /\ monFirst = TRUE
    /\ last_charging = TRUE
    /\ stableSecs = 0
    /\ monDebounced = FALSE
    /\ lastCall = NoCall
    /\ acOnline \in {"0", "1", "absent"}
    /\ flips = -1
    /\ flipsRead = -1

NextLive ==
    \/ Engine
    \/ Restore
    \/ RestoreJoin(get_charging_status(acOnline))
    \/ MonTick(get_charging_status(acOnline))
    \/ \E ps \in PowerStates : MonEnforce(ps)
    \/ MonWorkerFail
    \/ Plug
    \/ \E p \in Pids : ProcOpen(p)
    \/ \E p \in Pids : ProcExit(p)

\* The timer of interval.tick() fires, a blocking worker that was handed a
\* function runs it to its return, and run() gets from its restore to the
\* spawn of the monitor. Nothing is assumed of the processes, the charger
\* or the panics.
FairLive ==
    /\ WF_vars(MonTick(get_charging_status(acOnline)))
    /\ WF_vars(\E ps \in PowerStates : MonEnforce(ps))
    /\ WF_vars(Restore)
    /\ WF_vars(RestoreJoin(get_charging_status(acOnline)))
    /\ \A t \in Threads : WF_vars(Engine /\ th'[t] # th[t])

SpecLive == InitLive /\ [][NextLive]_vars /\ FairLive

\* ------------------------------------------------------------ main()
\* effective uids the daemon may be started with: root and an ordinary user
Uids == {0, 1000}

\* As Main, but the message is printed and the daemon goes on.
Main_Warn(uid) ==
    /\ phase = "boot"
    /\ phase' = "restore"
    /\ UNCHANGED <<env, files, host, probe, th, mon, lastCall, acOnline, flips, flipsRead>>

\* main(): exit(1) unless geteuid() is 0, else daemon::run()
Main(uid) ==
    /\ phase = "boot"
    /\ phase' = IF uid # 0 THEN "exit1" ELSE "restore"
    /\ UNCHANGED <<env, files, host, probe, th, mon, lastCall, acOnline, flips, flipsRead>>

\* A user logs in: loginctl lists a uid in 1000..65533 from now on.
Login ==
    /\ host.on /\ ~host.loggedIn
    /\ host' = [host EXCEPT !.loggedIn = TRUE]
    /\ UNCHANGED <<env, files, phase, probe, th, mon, lastCall, acOnline, flips, flipsRead>>

\* The machine is about to suspend: the login manager signals
\* PrepareForSleep(true). run() subscribes to nothing.
Suspend ==
    /\ host.on /\ ~host.suspended
    /\ host' = [host EXCEPT !.suspended = TRUE]
    /\ UNCHANGED <<env, files, phase, probe, th, mon, lastCall, acOnline, flips, flipsRead>>

\* The machine has resumed: PrepareForSleep(false). run() subscribes to
\* nothing.
Resume ==
    /\ host.on /\ host.suspended
    /\ host' = [host EXCEPT !.suspended = FALSE]
    /\ UNCHANGED <<env, files, phase, probe, th, mon, lastCall, acOnline, flips, flipsRead>>

\* The daemon from the start of its process, with the machine around it
\* followed and no method calls.
InitHost ==
    /\ gpuPresent = TRUE
    /\ driverBound = TRUE
    /\ modulesLoaded = TRUE
    /\ servicesUp = TRUE
    /\ slots \in [Slots -> {0, 1}]
    /\ slots[GpuSlot] = 1
    /\ procs = {}
    /\ stateFile \in {"absent", "on", "off"}
    /\ autoFile \in {"absent", "true"}
    /\ phase = "boot"
    /\ host \in [on : {TRUE}, loggedIn : BOOLEAN, suspended : {FALSE}]
    /\ probe = NoProbe
    /\ th = [t \in Threads |-> Idle]
    /\ monPc = "tick"
    /\ monFirst = TRUE
    /\ last_charging = TRUE
    /\ stableSecs = 0
    /\ monDebounced = FALSE
    /\ lastCall = NoCall
    /\ acOnline = "untracked"
    /\ flips = -1
    /\ flipsRead = -1

NextHost ==
    \/ \E uid \in Uids : Main(uid)
    \/ Login
    \/ Suspend
    \/ Resume
    \/ Engine
    \/ Restore
    \/ \E c \in BOOLEAN : RestoreJoin(c)
    \/ \E c \in BOOLEAN : MonTick(c)
    \/ \E ps \in PowerStates : MonEnforce(ps)
    \/ \E p \in Pids : ProcOpen(p)
    \/ \E p \in Pids : ProcExit(p)

SpecHost == InitHost /\ [][NextHost]_vars

\* ------------------------------------------------------------ pure functions
\* Strings are sequences of one-character strings.
UpperCase == <<"A", "B", "C", "D", "E", "F", "G", "H", "I", "J", "K", "L", "M", "N", "O", "P", "Q", "R", "S", "T", "U", "V", "W", "X", "Y", "Z">>
LowerCase == <<"a", "b", "c", "d", "e", "f", "g", "h", "i", "j", "k", "l", "m", "n", "o", "p", "q", "r", "s", "t", "u", "v", "w", "x", "y", "z">>

\* str::to_lowercase(), on ASCII text
to_lowercase(s) ==
    [i \in 1..Len(s) |->
        IF \E k \in 1..Len(UpperCase) : UpperCase[k] = s[i]
        THEN LowerCase[CHOOSE k \in 1..Len(UpperCase) : UpperCase[k] = s[i]]
        ELSE s[i]]

\* str::trim(): leading and trailing white space removed
trim(s) ==
    LET keep == {i \in 1..Len(s) : s[i] \notin {" ", "\n", "\t"}}
    IN  IF keep = {} THEN <<>>
        ELSE SubSeq(s, CHOOSE i \in keep : \A j \in keep : i <= j,
                       CHOOSE i \in keep : \A j \in keep : i >= j)

\* enum Mode
Modes == {"Standard", "Integrated", "Optimized"}

\* impl Display for Mode
Display ==
    [Standard |-> <<"S", "t", "a", "n", "d", "a", "r", "d">>,
     Integrated |-> <<"I", "n", "t", "e", "g", "r", "a", "t", "e", "d">>,
     Optimized |-> <<"O", "p", "t", "i", "m", "i", "z", "e", "d">>]

\* As from_str, but the text is matched as it is written.
from_str_CaseSensitive(s) ==
    IF s \in {<<"s", "t", "a", "n", "d", "a", "r", "d">>, <<"s", "t", "d">>, <<"o", "f", "f">>}
    THEN [ok |-> TRUE, mode |-> "Standard"]
    ELSE IF s \in {<<"i", "n", "t", "e", "g", "r", "a", "t", "e", "d">>, <<"i", "n", "t">>, <<"o", "n">>}
    THEN [ok |-> TRUE, mode |-> "Integrated"]
    ELSE IF s \in {<<"o", "p", "t", "i", "m", "i", "z", "e", "d">>, <<"o", "p", "t">>, <<"a", "u", "t", "o">>}
    THEN [ok |-> TRUE, mode |-> "Optimized"]
    ELSE [ok |-> FALSE, mode |-> "Unknown mode: "]

\* impl FromStr for Mode; the Err is format!("Unknown mode: {}", s), the
\* text of s left out
from_str(s) ==
    LET l == to_lowercase(s) IN
    IF l \in {<<"s", "t", "a", "n", "d", "a", "r", "d">>, <<"s", "t", "d">>, <<"o", "f", "f">>}
    THEN [ok |-> TRUE, mode |-> "Standard"]
    ELSE IF l \in {<<"i", "n", "t", "e", "g", "r", "a", "t", "e", "d">>, <<"i", "n", "t">>, <<"o", "n">>}
    THEN [ok |-> TRUE, mode |-> "Integrated"]
    ELSE IF l \in {<<"o", "p", "t", "i", "m", "i", "z", "e", "d">>, <<"o", "p", "t">>, <<"a", "u", "t", "o">>}
    THEN [ok |-> TRUE, mode |-> "Optimized"]
    ELSE [ok |-> FALSE, mode |-> "Unknown mode: "]

RECURSIVE get_charging_status_reversed(_, _)
\* As get_charging_status_at, but the candidates are tried from the last
\* one to the first.
get_charging_status_reversed(candidates, i) ==
    IF i > Len(candidates) THEN TRUE
    ELSE IF candidates[Len(candidates) + 1 - i].ok
    THEN trim(candidates[Len(candidates) + 1 - i].content) = <<"1">>
    ELSE get_charging_status_reversed(candidates, i + 1)

RECURSIVE get_charging_status_at(_, _)
\* system::get_charging_status(), its loop from candidate i on: candidates
\* are the online files of ACAD, AC and ADP1 in this order, each with
\* whether read_to_string succeeds and what it reads.
get_charging_status_at(candidates, i) ==
    IF i > Len(candidates) THEN TRUE
    ELSE IF candidates[i].ok THEN trim(candidates[i].content) = <<"1">>
    ELSE get_charging_status_at(candidates, i + 1)

\* what an online file may hold
OnlineContents ==
    {<<"1", "\n">>,
     <<"0", "\n">>,
     <<"1">>,
     <<"0">>,
     <<>>,
     <<" ", "1", " ", "\n">>,
     <<"1", "0", "\n">>,
     <<"2", "\n">>}
OnlineFiles ==
    {[ok |-> FALSE, content |-> <<>>]} \cup [ok : {TRUE}, content : OnlineContents]

\* texts handed to from_str
ModeTexts ==
    {<<"s", "t", "a", "n", "d", "a", "r", "d">>,
     <<"s", "t", "d">>,
     <<"o", "f", "f">>,
     <<"i", "n", "t", "e", "g", "r", "a", "t", "e", "d">>,
     <<"i", "n", "t">>,
     <<"o", "n">>,
     <<"o", "p", "t", "i", "m", "i", "z", "e", "d">>,
     <<"o", "p", "t">>,
     <<"a", "u", "t", "o">>,
     <<"S", "t", "a", "n", "d", "a", "r", "d">>,
     <<"I", "n", "t", "e", "g", "r", "a", "t", "e", "d">>,
     <<"O", "p", "t", "i", "m", "i", "z", "e", "d">>,
     <<"S", "T", "D">>,
     <<"O", "f", "f">>,
     <<"O", "N">>,
     <<"I", "n", "t">>,
     <<"A", "U", "T", "O">>,
     <<"o", "P", "t">>,
     <<>>,
     <<"o", "f">>,
     <<"o", "n", "n">>,
     <<"s", "t", "d", "x">>,
     <<" ", "o", "n">>,
     <<"o", "n", " ">>,
     <<"h", "y", "b", "r", "i", "d">>,
     <<"0">>,
     <<"s", "t", " ", "d">>,
     <<"s", "t", "a", "n", "d", "a", "r", "t">>}

\* get_charging_status() is called and returns.
ProbeCharging ==
    /\ probe.fn = "get_charging_status" /\ probe.ret = <<>>
    /\ probe' = [probe EXCEPT !.ret = <<get_charging_status_at(probe.arg, 1)>>]
    /\ UNCHANGED <<env, files, phase, host, th, mon, lastCall, acOnline, flips, flipsRead>>

\* mode.to_string(), whose text is then handed to from_str
ProbeDisplay ==
    /\ probe.fn = "to_string" /\ probe.ret = <<>>
    /\ probe' = [fn |-> "from_str", arg |-> Display[probe.arg[1]], ret |-> <<>>,
                 src |-> probe.arg]
    /\ UNCHANGED <<env, files, phase, host, th, mon, lastCall, acOnline, flips, flipsRead>>

\* Mode::from_str(s) is called and returns.
ProbeFromStr ==
    /\ probe.fn = "from_str" /\ probe.ret = <<>>
    /\ probe' = [probe EXCEPT !.ret = <<from_str(probe.arg)>>]
    /\ UNCHANGED <<env, files, phase, host, th, mon, lastCall, acOnline, flips, flipsRead>>

\* One call of a pure function, on any of its inputs; the daemon is left at
\* its start.
InitPure ==
    /\ gpuPresent = TRUE
    /\ driverBound = TRUE
    /\ modulesLoaded = TRUE
    /\ servicesUp = TRUE
    /\ slots = [sl \in Slots |-> 1]
    /\ procs = {}
    /\ stateFile = "absent"
    /\ autoFile = "absent"
    /\ phase = "boot"
    /\ host = NoHost
    /\ probe \in [fn : {"get_charging_status"},
                  arg : [1..3 -> OnlineFiles], ret : {<<>>}, src : {<<>>}]
            \cup [fn : {"to_string"}, arg : {<<m>> : m \in Modes}, ret : {<<>>}, src : {<<>>}]
            \cup [fn : {"from_str"}, arg : ModeTexts, ret : {<<>>}, src : {<<>>}]
    /\ th = [t \in Threads |-> Idle]
    /\ monPc = "tick"
    /\ monFirst = TRUE
    /\ last_charging = TRUE
    /\ stableSecs = 0
    /\ monDebounced = FALSE
    /\ lastCall = NoCall
    /\ acOnline = "untracked"
    /\ flips = -1
    /\ flipsRead = -1

NextPure ==
    \/ ProbeCharging
    \/ ProbeDisplay
    \/ ProbeFromStr

SpecPure == InitPure /\ [][NextPure]_vars

TypeOK ==
    /\ gpuPresent \in BOOLEAN
    /\ driverBound \in BOOLEAN
    /\ procs \subseteq Pids
    /\ stateFile \in {"absent", "on", "off"}
    /\ autoFile \in {"absent", "true", "false"}
    /\ phase \in {"boot", "exit1", "restore", "serving"}
    /\ stableSecs \in 0..DebounceSecs

\* ------------------------------------------------------------ properties
Names(log) == [i \in 1..Len(log) |-> log[i].step]
IsPrefix(a, b) == Len(a) <= Len(b) /\ a = SubSeq(b, 1, Len(a))
Has(log, step) == \E i \in 1..Len(log) : log[i].step = step
OkAt(log, step) == \E i \in 1..Len(log) : log[i].step = step /\ log[i].ok
Last(q) == q[Len(q)]
Running(t) == th[t].pc \notin {"idle", "done"}
\* the step taken is a step of worker t
StepOf(t) == th'[t] # th[t]

\* the side effects of a sleep, in the order of the contract
SleepEffects == <<"kill", "stop_services", "unload_modules", "unbind_driver", "slot_power_off">>
\* the side effects of a wake, in the order of the contract
WakeEffects == <<"slot_power_on", "rescan", "wait_1s", "load_modules", "start_services">>
IsEffect(e) == e.step # "save_state"

\* C1: in every execution of Sleep(force) the side effects occur only in the
\* order SIGTERM (forced sleeps only), stop services, unload modules, unbind
\* driver, slot power off; every call but the last one made so far returned
\* without error; nothing follows the slot power off.
C1_SleepOrder ==
    \A t \in Threads :
        th[t].op = "sleep" =>
            LET log == th[t].log
                eff == Names(SelectSeq(log, IsEffect))
            IN  /\ \/ IsPrefix(eff, SleepEffects)
                   \/ IsPrefix(eff, Tail(SleepEffects))
                /\ Has(log, "kill") => th[t].force
                /\ \A i \in 1..(Len(log) - 1) : log[i].ok
                /\ Has(log, "slot_power_off") => Last(log).step = "slot_power_off"

\* a forced sleep that killed, stopped, unloaded, unbound and powered off
C1_Witness ==
    \E t \in Threads :
        /\ th[t].op = "sleep" /\ th[t].pc = "done" /\ th[t].res.ok
        /\ Names(SelectSeq(th[t].log, IsEffect)) = SleepEffects

\* C2: at most one worker is inside sleep_logic or wake_logic at a time.
C2_MutualExclusion ==
    Cardinality({t \in Threads : Running(t)}) <= 1

\* C3: a Sleep(false) whose process enumeration meets a process returns
\* ok=false with "Blocking processes found" and the processes found (or, if
\* the enumeration itself could not run, ok=false with its error), and sends
\* no signal: the set of processes is what it was.
C3_SoftSleepBlocked ==
    [][\A t \in Threads :
        (At(t, "sleep", "lsof") /\ ~th[t].force /\ StepOf(t) /\ procs # {})
        => /\ \/ Return(t, <<>>, FALSE, MsgBlocked, procs)
              \/ Return(t, <<>>, FALSE, MsgFailLsof, {})
           /\ ~Has(th[t].log, "kill")
           /\ procs' = procs]_vars

\* a soft sleep returned blocked with the list of processes
C3_Witness ==
    \E t \in Threads :
        /\ th[t].op = "sleep" /\ ~th[t].force /\ th[t].pc = "done"
        /\ th[t].res.msg = MsgBlocked /\ ~th[t].res.ok /\ th[t].res.procs # {}

\* C4: a Sleep(false) that meets a blocking process has made no call that
\* writes and makes none: the state and auto files, the services, the
\* modules, the driver binding and the slot power are what they were.
C4_BlockedFrame ==
    [][\A t \in Threads :
        (At(t, "sleep", "lsof") /\ ~th[t].force /\ StepOf(t) /\ procs # {})
        => /\ th[t].log = <<>>
           /\ th'[t].log = <<>>
           /\ UNCHANGED <<files, gpuPresent, driverBound, modulesLoaded, servicesUp, slots>>]_vars

\* a soft sleep returned blocked with the GPU awake and sleep not persisted
C4_Witness ==
    \E t \in Threads :
        /\ th[t].op = "sleep" /\ ~th[t].force /\ th[t].pc = "done"
        /\ th[t].res.msg = MsgBlocked
        /\ stateFile = "off" /\ modulesLoaded /\ servicesUp /\ driverBound
        /\ slots[GpuSlot] = 1

\* The policy a bus request asks for, in terms of the two persisted files:
\* sleep enabled, sleep disabled, auto enabled.
C5_Persisted(t) ==
    CASE th[t].op = "sleep" -> stateFile = "on"
      [] th[t].op = "wake" -> stateFile = "off"
      [] OTHER -> TRUE

\* C5: when a request that sets the sleep policy returns, with ok=true or
\* ok=false, the persisted state is the requested one.
C5_PersistedOnReturn ==
    th["bus"].pc = "done" => C5_Persisted("bus")

\* C6: in a transition started by a request, the persisted state is written
\* before the first side effect: the first call that writes is save_state.
C6_PersistFirst ==
    th["bus"].log # <<>> => th["bus"].log[1].step = "save_state"

\* C7: while auto mode is enabled, the monitor never issues a forced sleep.
C7_AutoNeverForces ==
    [][(th["mon"].pc = "idle" /\ th'["mon"].op = "sleep" /\ th'["mon"].force)
        => ~load_auto_state]_vars

\* C8 as stated: a sleep that returns ok=true leaves the GPU absent or
\* everything down, a wake that returns ok=true leaves everything up, and no
\* call of a transition that returns ok=true has failed.
C8_SuccessMeansMoved ==
    \A t \in Threads :
        (th[t].pc = "done" /\ th[t].res.ok) =>
            /\ th[t].op = "sleep" =>
                \/ ~gpuPresent
                \/ ~servicesUp /\ ~modulesLoaded /\ ~driverBound /\ slots[GpuSlot] = 0
            /\ th[t].op = "wake" =>
                slots[GpuSlot] = 1 /\ modulesLoaded /\ servicesUp
            /\ th[t].op \in {"sleep", "wake"} =>
                \A i \in 1..Len(th[t].log) : th[t].log[i].ok

\* C8 as amended: a sleep returns ok=true only when the GPU was not found or
\* it ran the service stop and its state save, module unload, driver unbind
\* and slot power-off each returned success; a wake returns ok=true only
\* when it ran slot power-on, rescan and service start and its state save and
\* module load returned success.
C8_SuccessMeansStepsOk ==
    \A t \in Threads :
        (th[t].pc = "done" /\ th[t].res.ok) =>
            LET log == th[t].log
            IN  /\ th[t].op = "sleep" =>
                    \/ th[t].res.msg = MsgNotFound /\ log = <<>>
                    \/ /\ IsPrefix(Tail(SleepEffects), Names(SelectSeq(log, IsEffect)))
                          \/ Names(SelectSeq(log, IsEffect)) = SleepEffects
                       /\ \A s \in {"save_state", "unload_modules", "unbind_driver",
                                    "slot_power_off"} : OkAt(log, s)
                       /\ \A i \in 1..Len(log) :
                            log[i].step # "stop_services" => log[i].ok
                /\ th[t].op = "wake" =>
                    /\ Names(log) = <<"save_state">> \o WakeEffects
                    /\ OkAt(log, "save_state") /\ OkAt(log, "load_modules")

\* a sleep that returned ok=true with the services still up
C8_Witness ==
    /\ th["bus"].pc = "done" /\ th["bus"].res.ok /\ th["bus"].op = "sleep"
    /\ Has(th["bus"].log, "slot_power_off")
    /\ servicesUp

\* the message each fatal call's failure is reported with
C9_FailMsg(step) ==
    CASE step = "unload_modules" -> MsgFailUnload
      [] step = "unbind_driver" -> MsgFailUnbind
      [] step = "slot_power_off" -> MsgFailSlot
      [] step = "load_modules" -> MsgFailLoad

\* C9: a failed module unload, driver unbind, slot power-off or module load
\* is the last call of its transition, which returns ok=false with the
\* message of that call.
C9_FailureAborts ==
    \A t \in Threads :
        \A i \in 1..Len(th[t].log) :
            LET e == th[t].log[i]
            IN  (e.step \in {"unload_modules", "unbind_driver", "slot_power_off",
                             "load_modules"} /\ ~e.ok)
                => /\ i = Len(th[t].log)
                   /\ th[t].pc = "done"
                   /\ ~th[t].res.ok
                   /\ th[t].res.msg = C9_FailMsg(e.step)
                   /\ th[t].res.procs = {}

\* a sleep whose driver unbind failed after the modules were unloaded
C9_Witness ==
    \E t \in Threads :
        /\ th[t].pc = "done" /\ th[t].log # <<>>
        /\ Last(th[t].log) = [step |-> "unbind_driver", ok |-> FALSE]
        /\ OkAt(th[t].log, "unload_modules")

\* C10: in every execution of Wake the calls after the state save are, in
\* this order, slot power-on, rescan, wait, module load, service start; so
\* no module load before the rescan and no service start unless the module
\* load returned success.
C10_WakeOrder ==
    \A t \in Threads :
        th[t].op = "wake" =>
            LET log == th[t].log
            IN  /\ IsPrefix(Names(SelectSeq(log, IsEffect)), WakeEffects)
                /\ Has(log, "load_modules") => Has(log, "rescan")
                /\ Has(log, "start_services") => OkAt(log, "load_modules")

\* a wake that ran to the service start with a slot power write that failed
C10_Witness ==
    \E t \in Threads :
        /\ th[t].op = "wake" /\ th[t].pc = "done" /\ th[t].res.ok
        /\ Has(th[t].log, "start_services")
        /\ ~OkAt(th[t].log, "slot_power_on")

\* C11: a Sleep(true) that finds no Nvidia GPU on the bus returns ok=true
\* with the GPU-not-found message and no process list, having made no call
\* that writes, and leaves files and hardware as they were; and a slot
\* power-off that went through leaves no GPU on the bus for the next sleep
\* to find.
C11_SleepIdempotent ==
    [][\A t \in Threads :
        /\ (At(t, "sleep", "find") /\ th[t].force /\ StepOf(t) /\ ~gpuPresent)
            => /\ Return(t, <<>>, TRUE, MsgNotFound, {})
               /\ th[t].log = <<>>
               /\ UNCHANGED <<env, files>>
        /\ (At(t, "sleep", "slot") /\ StepOf(t) /\ slots'[GpuSlot] = 0)
            => ~gpuPresent']_vars

\* a forced sleep answered "not found" with the slot powered off by an
\* earlier sleep
C11_Witness ==
    /\ th["bus"].op = "sleep" /\ th["bus"].force /\ th["bus"].pc = "done"
    /\ th["bus"].res = [ok |-> TRUE, msg |-> MsgNotFound, procs |-> {}]
    /\ th["bus"].log = <<>>
    /\ slots[GpuSlot] = 0 /\ stateFile = "on"

\* the bus is running a Wake that follows a Wake it answered with ok=true
SecondWake ==
    /\ lastCall.on /\ lastCall.op = "wake" /\ lastCall.ok
    /\ th["bus"].op = "wake"
    /\ StepOf("bus")

\* C12 as stated: the second of two Wake calls in succession writes no slot
\* power file, leaves the persisted state as it was and returns ok=true.
C12_WakeTwiceNoChange ==
    [][SecondWake =>
        /\ slots' = slots
        /\ stateFile' = stateFile
        /\ th'["bus"].pc = "done" => th'["bus"].res.ok]_vars

\* C12 as amended: the second of two Wake calls in succession finds the
\* state file "off" and leaves it "off"; it powers on only slots that still
\* read 0 (those whose write the first call lost), so none when every slot
\* reads 1; and it returns ok=true unless its state save or its module load
\* fails.
C12_WakeTwice ==
    [][SecondWake =>
        /\ stateFile = "off" /\ stateFile' = "off"
        /\ \A s \in Slots : slots'[s] # slots[s] => slots[s] = 0 /\ slots'[s] = 1
        /\ (\A s \in Slots : slots[s] = 1) => slots' = slots
        /\ (th["bus"].pc # "done" /\ th'["bus"].pc = "done" /\ ~th'["bus"].res.ok)
            => /\ Last(th'["bus"].log).step \in {"save_state", "load_modules"}
               /\ ~Last(th'["bus"].log).ok]_vars

\* a second Wake returned ok=true with the state file "off" and the GPU up
C12_Witness ==
    /\ lastCall.on /\ lastCall.op = "wake" /\ lastCall.ok
    /\ th["bus"].op = "wake" /\ th["bus"].pc = "done" /\ th["bus"].res.ok
    /\ stateFile = "off"
    /\ slots[GpuSlot] = 1 /\ gpuPresent /\ modulesLoaded

\* C13: a request that sets the policy persists it and then runs one
\* transition, whose result is the reply: when the bus handler of a request
\* is done, the request was a Sleep or a Wake that began by saving the state,
\* or it enabled auto mode and ran a Wake or a Sleep(false) after saving.
C13_SetRunsTransition ==
    th["bus"].pc = "done" =>
        /\ th["bus"].op \in {"sleep", "wake"}
        /\ th["bus"].log # <<>>
        /\ th["bus"].log[1].step = "save_state"

\* C14: on a tick with sleep enabled, the enforcement block hands a worker
\* sleep_logic(true) if and only if the GPU is found and its power state
\* reads D0 or Unknown, and otherwise starts nothing; with auto mode off the
\* charging block before it starts nothing either.
C14_EnforceIff ==
    [][/\ \A ps \in PowerStates :
            (MonEnforce(ps) /\ load_state) =>
                IF gpuPresent /\ ps \in {"D0", "Unknown"}
                THEN th'["mon"].op = "sleep" /\ th'["mon"].force /\ th'["mon"].pc = "find"
                ELSE th' = th
       /\ \A c \in BOOLEAN :
            (MonTick(c) /\ load_state /\ ~load_auto_state) => th' = th]_vars

\* the monitor has started a forced sleep with sleep enabled and auto off
C14_Witness ==
    /\ th["mon"].op = "sleep" /\ th["mon"].force /\ th["mon"].pc = "find"
    /\ load_state /\ ~load_auto_state
    /\ gpuPresent /\ monPc = "tick"

\* C15: in auto mode, a tick that reads a charging status other than the one
\* recorded only records it and restarts the stability clock: neither its
\* charging block nor the rest of the tick hands a worker a Wake or a Sleep.
C15_DebounceTickIdle ==
    [][/\ \A c \in BOOLEAN :
            (MonTick(c) /\ load_auto_state /\ c # last_charging)
                => th' = th /\ last_charging' = c /\ stableSecs' = 0
       /\ (monDebounced /\ monPc = "enforce") => th'["mon"] = th["mon"]]_vars

\* stable_since.elapsed() as the tick about to run reads it
Elapsed ==
    IF monFirst THEN stableSecs ELSE Min(stableSecs + TickSecs, DebounceSecs)

TickCall(c) ==
    IF Elapsed >= DebounceSecs /\ c /\ load_state THEN "wake"
    ELSE IF Elapsed >= DebounceSecs /\ ~c /\ ~load_state THEN "sleep"
    ELSE "none"

\* C17: in auto mode, a charger that changed and changed back between two
\* reads of the monitor causes nothing: the change itself starts no call and
\* touches no monitor state, and the next tick reads the recorded status,
\* keeps its stability clock and starts exactly the call it starts for a
\* charger that stayed as recorded.
C17_FlipBackUnseen ==
    [][/\ Plug => UNCHANGED <<th, mon, files, env>>
       /\ (MonTick(get_charging_status(acOnline)) /\ load_auto_state
                /\ flips > 0 /\ flips % 2 = 0)
            => /\ get_charging_status(acOnline) = last_charging
               /\ ~monDebounced'
               /\ last_charging' = last_charging
               /\ stableSecs' = Elapsed
               /\ th'["mon"].op = TickCall(last_charging)
               /\ th'["mon"].op = "sleep" => ~th'["mon"].force]_vars

\* a tick that read the charger after it changed and changed back has
\* started the soft sleep due on battery
C17_Witness ==
    /\ flipsRead = 2 /\ monPc = "enforce" /\ load_auto_state
    /\ th["mon"].op = "sleep" /\ ~th["mon"].force /\ th["mon"].pc = "find"
    /\ ~last_charging /\ acOnline = "0"

\* C18: with sleep not enabled and auto mode off, neither block of a tick
\* starts a transition or writes anything: the workers, the processes, the
\* state and auto files and the hardware are what they were.
C18_StandardTickIdle ==
    [][\A c \in BOOLEAN, ps \in PowerStates :
        ((MonTick(c) \/ MonEnforce(ps)) /\ ~load_state /\ ~load_auto_state)
            => UNCHANGED <<th, env, files>>]_vars

\* a tick has run its charging block with sleep disabled and auto mode
\* switched off, the GPU awake and in use
C18_Witness ==
    /\ monPc = "enforce" /\ th["mon"].pc = "idle"
    /\ stateFile = "off" /\ autoFile = "false"
    /\ gpuPresent /\ procs # {}

C20_KeepsTicking ==
    []<><<MonTick(get_charging_status(acOnline))>>_vars

\* a tick has just started a transition while the monitor's last transition
\* returned a failure or was lost with its worker
C20_Witness ==
    /\ monPc = "enforce" /\ ~monFirst
    /\ th["mon"].pc \in {"find", "w_save"}
    /\ th["mon"].res \notin {NoRes, FirstRes}
    /\ ~th["mon"].res.ok

\* C21: on every resume edge (PrepareForSleep(false)) run() starts its
\* re-apply of the persisted mode, the wait of 5 s followed by the dispatch
\* of Set: with the daemon serving, the step of the edge takes run() out of
\* its idle wait.
C21_ResumeReapplies ==
    [][(Resume /\ phase = "serving") => th'["main"] # Idle]_vars

\* C22: at startup no transition is issued and the monitor is not started
\* before a user is logged in: whenever a worker runs a transition or the
\* daemon has got past its restore, a user is logged in.
C22_WaitsForLogin ==
    (phase = "serving" \/ \E t \in Threads : th[t].pc # "idle") => host.loggedIn

\* C23: started with an effective uid other than 0, the daemon exits with
\* code 1, and having exited it has restored nothing, issued no transition,
\* not started the monitor nor bound the bus name, and it never does.
C23_NonRootExits ==
    [][/\ \A uid \in Uids : (Main(uid) /\ uid # 0) => phase' = "exit1"
       /\ phase' = "exit1" =>
            /\ th' = [t \in Threads |-> Idle]
            /\ monFirst' /\ monPc' = "tick"
            /\ UNCHANGED <<files, gpuPresent, driverBound, modulesLoaded, servicesUp, slots>>
       /\ phase = "exit1" => phase' = "exit1"]_vars

\* the daemon has exited with code 1 while the state file asks for sleep and
\* the GPU is still up
C23_Witness ==
    /\ phase = "exit1" /\ stateFile = "on"
    /\ gpuPresent /\ driverBound /\ modulesLoaded /\ servicesUp

\* C24: at startup run() applies the persisted mode without writing it: with
\* auto mode off it starts Wake() unless the state file reads "on" (also when
\* the file is missing or cannot be read) and Sleep(force=true) when it reads
\* "on"; with auto mode on it starts Wake() or a soft Sleep; the state file
\* is left as it is until the restore is over, and until then the monitor
\* has not ticked and the bus serves nothing.
C24_RestoreApplies ==
    [][/\ (Restore /\ ~load_auto_state) =>
            /\ th'["main"].op = (IF load_state THEN "sleep" ELSE "wake")
            /\ th'["main"].force = load_state
       /\ (Restore /\ load_auto_state) =>
            \/ th'["main"].op = "wake"
            \/ th'["main"].op = "sleep" /\ ~th'["main"].force
       /\ phase = "restore" =>
            /\ stateFile' = stateFile
            /\ th'["bus"] = Idle /\ th'["mon"] = Idle /\ monFirst']_vars

\* C25: every call the control client makes through its proxy (Status, Info,
\* SetMode, SetRestoreDelay) is answered by a method of the daemon, with a
\* reply of the type the proxy declares; the reply of Info is the 3-tuple
\* (mode, power_state, processes), with power state "NotFound" and no
\* processes when no GPU is present.
C25_InterfaceMatches ==
    [][(BusReply /\ th["bus"].op \in DOMAIN ClientMethods) =>
        LET r == th["bus"] IN
        /\ r.res.msg # ErrUnknownMethod
        /\ DaemonMethods[r.op].out = ClientMethods[r.op].out
        /\ (r.op = "info" /\ ~gpuPresent) =>
                (r.res.msg \in {"NotFound", MsgInternal} /\ r.res.procs = {})]_vars

\* C26: when the worker of a method call fails, the handler still returns: a
\* value whose message is the "Internal error: ..." text, with ok = false
\* and no processes, for the method that was called; the reply goes out and
\* the object server is free for the next call.
C26_InternalReply ==
    [][/\ BusWorkerFail =>
            /\ th'["bus"].pc = "done"
            /\ th'["bus"].res.msg = MsgInternal
            /\ ~th'["bus"].res.ok /\ th'["bus"].res.procs = {}
            /\ th["bus"].op # "none" => th'["bus"].op = th["bus"].op
       /\ (BusReply /\ th["bus"].res.msg = MsgInternal) =>
            (th'["bus"] = Idle /\ phase' = "serving")
       /\ th["bus"].pc = "done" => (BusReply \/ UNCHANGED th)]_vars

\* a Wake was served and returned ok = true after the reply to a Status call
\* whose worker had failed
C26_Witness ==
    /\ lastCall.on /\ lastCall.op = "status" /\ ~lastCall.ok
    /\ th["bus"].pc = "done" /\ th["bus"].op = "wake" /\ th["bus"].res.ok

\* C27: get_charging_status() returns true when none of the online files of
\* ACAD, AC, ADP1 is there; otherwise it returns true exactly when the first
\* of them that is there, in this order, reads 1.
C27_ChargingFirstExisting ==
    (probe.fn = "get_charging_status" /\ probe.ret # <<>>) =>
        LET there == {i \in 1..3 : probe.arg[i].ok}
            first == CHOOSE i \in there : \A j \in there : i <= j
        IN  probe.ret[1] = (IF there = {} THEN TRUE
                            ELSE trim(probe.arg[first].content) = <<"1">>)

\* the call returned true with no ACAD file, an AC file reading 1 and an ADP1
\* file reading 0
C27_Witness ==
    /\ probe.fn = "get_charging_status" /\ probe.ret = <<TRUE>>
    /\ ~probe.arg[1].ok
    /\ probe.arg[2].ok /\ probe.arg[2].content = <<"1", "\n">>
    /\ probe.arg[3].ok /\ probe.arg[3].content = <<"0", "\n">>

\* the text s is the lowercase text a up to the case of its letters
SameIgnoringCase(s, a) ==
    /\ Len(s) = Len(a)
    /\ \A i \in 1..Len(s) :
        \/ s[i] = a[i]
        \/ \E k \in 1..Len(LowerCase) : LowerCase[k] = a[i] /\ UpperCase[k] = s[i]

\* the names the contract gives each mode
ModeNames ==
    [Standard |-> {<<"s","t","a","n","d","a","r","d">>, <<"s","t","d">>, <<"o","f","f">>},
     Integrated |-> {<<"i","n","t","e","g","r","a","t","e","d">>, <<"i","n","t">>, <<"o","n">>},
     Optimized |-> {<<"o","p","t","i","m","i","z","e","d">>, <<"o","p","t">>, <<"a","u","t","o">>}]

\* C28: from_str gives back the mode whose to_string() text it is handed; it
\* accepts a text exactly when the text is, up to the case of its letters,
\* one of a mode's names (standard/std/off, integrated/int/on,
\* optimized/opt/auto), returning that mode, and returns an error for every
\* other text.
C28_ParseRoundTrip ==
    (probe.fn = "from_str" /\ probe.ret # <<>>) =>
        /\ probe.src # <<>> => probe.ret[1] = [ok |-> TRUE, mode |-> probe.src[1]]
        /\ \A m \in Modes :
            (probe.ret[1].ok /\ probe.ret[1].mode = m)
                <=> \E a \in ModeNames[m] : SameIgnoringCase(probe.arg, a)
        /\ ~probe.ret[1].ok => probe.ret[1].mode \notin Modes

\* from_str returned Optimized for the text Optimized.to_string() gave
C28_Witness ==
    /\ probe.fn = "from_str" /\ probe.src = <<"Optimized">>
    /\ probe.arg = <<"O","p","t","i","m","i","z","e","d">>
    /\ probe.ret = <<[ok |-> TRUE, mode |-> "Optimized"]>>

FailedPartway ==
    /\ lastCall.on /\ lastCall.op = "sleep" /\ ~lastCall.ok
    /\ lastCall.at \in {"unload_modules", "unbind_driver", "slot_power_off"}

\* C30: a Sleep that follows a Sleep which failed partway does not fail on
\* the steps that are already done: stopping the services never fails it,
\* unbinding a device that has no driver bound is a success, and when it
\* returns ok = true each of its steps has returned Ok and the modules are
\* unloaded, the driver is unbound, the slot is powered off and the GPU is
\* off the bus.
C30_RetryCompletes ==
    [][(FailedPartway /\ th["bus"].op = "sleep" /\ StepOf("bus")) =>
        /\ th["bus"].pc = "stop" => th'["bus"].pc = "unload"
        /\ (th["bus"].pc = "unbind" /\ ~driverBound) => th'["bus"].pc = "slot"
        /\ (th'["bus"].pc = "done" /\ th'["bus"].res.ok /\ th'["bus"].res.msg = MsgSuccess) =>
            /\ \A i \in 1..Len(th'["bus"].log) : th'["bus"].log[i].ok
            /\ ~modulesLoaded' /\ ~driverBound'
            /\ slots'[GpuSlot] = 0 /\ ~gpuPresent']_vars

\* after a Sleep that failed at the slot power-off, with the driver already
\* unbound, the next Sleep has returned ok = true with services, modules,
\* driver and slot all down
C30_Witness ==
    /\ FailedPartway /\ lastCall.at = "slot_power_off"
    /\ th["bus"].pc = "done" /\ th["bus"].op = "sleep"
    /\ th["bus"].res.ok /\ th["bus"].res.msg = MsgSuccess
    /\ ~servicesUp /\ ~modulesLoaded /\ ~driverBound
    /\ slots[GpuSlot] = 0 /\ ~gpuPresent

\* C31: a failure of a service action (a unit that does not stop, or does
\* not start) never aborts a transition: the step of a sleep that calls
\* stop_services always goes on to the module unload, and the step of a wake
\* that calls start_services always returns (true, "Success").
C31_ServiceFailureNoAbort ==
    [][\A t \in Threads :
         /\ (At(t, "sleep", "stop") /\ th'[t] # th[t])
                => /\ th'[t].op = "sleep"
                   /\ th'[t].pc = "unload"
         /\ (At(t, "wake", "w_start") /\ th'[t] # th[t])
                => IF t = "mon" THEN th'[t].pc = "idle"
                   ELSE /\ th'[t].pc = "done"
                        /\ th'[t].res.ok
                        /\ th'[t].res.msg = MsgSuccess]_vars

\* A sleep requested over the bus is at its module unload with the units
\* still up after stop_services, no other worker having run since the
\* request was taken.
C31_Witness ==
    /\ phase = "serving"
    /\ At("bus", "sleep", "unload")
    /\ Last(th["bus"].log).step = "stop_services"
    /\ servicesUp

\* A wake requested over the bus returned success with the units still down
\* after start_services.
C31_WitnessWake ==
    /\ phase = "serving"
    /\ At("bus", "wake", "done")
    /\ th["bus"].res.ok
    /\ ~servicesUp

\* the soft sleep of the monitor has just returned "Blocking processes found"
SoftBlocked ==
    /\ At("mon", "sleep", "lsof") /\ ~th["mon"].force
    /\ th'["mon"].pc = "idle"
    /\ th'["mon"].res.msg = MsgBlocked

\* C32: in auto mode on battery a soft sleep of the monitor that is blocked
\* by processes is retried on every later tick while the inputs stay as they
\* are, and goes through once nothing blocks it. The blocked return leaves
\* the state and auto files, the recorded reading and the stability clock
\* untouched; a tick that reads the recorded reading with the clock at
\* DebounceSecs leaves both as they are; every such tick on battery with
\* sleep not enabled starts Sleep(false) again, the last result being the
\* blocked one or not; and a soft sleep whose slot power-off goes through
\* returns success with the GPU off the bus and sleep recorded, no method
\* call being involved.
C32_SoftSleepRetried ==
    [][/\ SoftBlocked => UNCHANGED <<files, env, last_charging, stableSecs>>
       /\ \A c \in BOOLEAN :
            (MonTick(c) /\ load_auto_state /\ c = last_charging
                /\ stableSecs = DebounceSecs)
            => /\ stableSecs' = DebounceSecs
               /\ last_charging' = last_charging
               /\ (~c /\ ~load_state)
                    => /\ th'["mon"].op = "sleep" /\ ~th'["mon"].force
                       /\ th'["mon"].pc = "find"
       /\ (At("mon", "sleep", "slot") /\ ~th["mon"].force
                /\ slots[GpuSlot] = 1 /\ slots'[GpuSlot] = 0)
            => /\ th'["mon"].pc = "idle"
               /\ th'["mon"].res = [ok |-> TRUE, msg |-> MsgSuccess, procs |-> {}]
               /\ ~gpuPresent' /\ procs' = {}
               /\ stateFile' = "on"
               /\ th'["bus"] = Idle /\ th'["main"] = Idle]_vars

\* on battery in auto mode, a tick has started the soft sleep again after
\* the monitor's last soft sleep was blocked, the processes still there
C32_Witness ==
    /\ load_auto_state /\ ~load_state /\ acOnline = "0" /\ ~last_charging
    /\ stableSecs = DebounceSecs /\ monPc = "enforce"
    /\ At("mon", "sleep", "find") /\ ~th["mon"].force
    /\ th["mon"].res.msg = MsgBlocked /\ th["mon"].res.procs # {}
    /\ procs # {}

\* on battery in auto mode the monitor's soft sleep has gone through: the
\* GPU is off the bus with sleep recorded
C32_WitnessAsleep ==
    /\ load_auto_state /\ acOnline = "0" /\ ~last_charging
    /\ th["mon"].pc = "idle" /\ th["mon"].res.msg = MsgSuccess
    /\ ~gpuPresent /\ slots[GpuSlot] = 0 /\ stateFile = "on"

\* C33: a request for the mode that is already current is a no-op, it runs
\* no transition and rewrites nothing: a Wake requested while sleep is not
\* enabled and auto mode is off, and a forced Sleep requested while sleep is
\* enabled and auto mode is off, hand no worker a transition and leave the
\* files and the hardware as they are.
C33_SameModeNoop ==
    [][/\ (BusWake /\ ~load_state /\ ~load_auto_state)
            => th'["bus"].op = "none" /\ UNCHANGED <<env, files>>
       /\ (BusSleep(TRUE) /\ load_state /\ ~load_auto_state)
            => th'["bus"].op = "none" /\ UNCHANGED <<env, files>>]_vars

\* C34: in auto mode with the charger plugged in, a manual Sleep that
\* succeeded is overridden by the monitor. A tick that reads the charger
\* plugged in, as recorded and stable for DebounceSecs, with sleep enabled by
\* a Sleep request that was answered ok=true, hands a worker Wake; and a Wake
\* of the monitor whose state save goes through leaves the state file "off".
C34_ManualSleepOverridden ==
    [][/\ (MonTick(get_charging_status(acOnline))
                /\ lastCall.op = "sleep" /\ lastCall.ok
                /\ load_auto_state /\ load_state
                /\ acOnline = "1" /\ last_charging
                /\ Elapsed >= DebounceSecs)
            => th'["mon"].op = "wake" /\ th'["mon"].pc = "w_save"
       /\ (At("mon", "wake", "w_save") /\ th'["mon"].pc = "w_slots")
            => stateFile' = "off"]_vars

\* plugged in and in auto mode, the monitor's Wake has saved the state as
\* "off" after a manual Sleep that went through to the slot power-off
C34_Witness ==
    /\ lastCall.op = "sleep" /\ lastCall.ok /\ lastCall.at = "slot_power_off"
    /\ th["bus"] = Idle
    /\ load_auto_state /\ acOnline = "1" /\ last_charging
    /\ stableSecs = DebounceSecs
    /\ At("mon", "wake", "w_slots")
    /\ stateFile = "off" /\ slots[GpuSlot] = 0

\* C35: the monitor calls Wake only in auto mode on a debounced reading of
\* "charging", and with auto mode off it calls neither Wake nor
\* Sleep(false). A tick that hands a worker Wake has auto mode enabled and
\* reads charging as recorded and stable for DebounceSecs; a tick that hands
\* a worker a soft sleep has auto mode enabled; a tick with auto mode off
\* leaves the workers alone; and the enforcement block starts nothing but a
\* forced sleep.
C35_WakeOnlyAutoCharging ==
    [][\A c \in BOOLEAN, ps \in PowerStates :
        /\ (MonTick(c) /\ th'["mon"].op = "wake")
            => /\ load_auto_state
               /\ c /\ last_charging
               /\ Elapsed >= DebounceSecs
        /\ (MonTick(c) /\ th'["mon"].op = "sleep")
            => load_auto_state /\ ~th'["mon"].force
        /\ (MonTick(c) /\ ~load_auto_state) => th' = th
        /\ MonEnforce(ps)
            => \/ th' = th
               \/ th'["mon"].op = "sleep" /\ th'["mon"].force]_vars

\* a tick in auto mode has handed a worker Wake, sleep being enabled and the
\* GPU off the bus, on a reading of "charging" stable for DebounceSecs
C35_Witness ==
    /\ At("mon", "wake", "w_save") /\ monPc = "enforce"
    /\ load_auto_state /\ load_state /\ ~gpuPresent
    /\ last_charging /\ stableSecs = DebounceSecs /\ ~monDebounced

\* a tick has run its charging block with sleep enabled, auto mode off and
\* the GPU off the bus, and left the monitor's worker idle
C35_WitnessIntegrated ==
    /\ monPc = "enforce" /\ th["mon"].pc = "idle" /\ ~monFirst
    /\ load_state /\ ~load_auto_state /\ ~gpuPresent

\* C36: Status and Info are read-only, also while a transition runs on
\* another worker: the step of either method, and the reply that follows
\* it, leave the state and auto files, the slots, the driver binding, the
\* modules, the services and the processes as they are, run no call of a
\* transition on the bus worker, and do not touch the other workers.
C36_ReadsAreReadOnly ==
    [][/\ (BusStatus \/ BusInfo)
            => /\ UNCHANGED <<env, files>>
               /\ th'["bus"].op \in {"status", "info"}
               /\ th'["bus"].pc = "done" /\ th'["bus"].log = <<>>
               /\ th'["mon"] = th["mon"] /\ th'["main"] = th["main"]
               /\ UNCHANGED mon
       /\ (BusReply /\ th["bus"].op \in {"status", "info"})
            => UNCHANGED <<env, files, mon>> /\ th'["bus"] = Idle]_vars

\* Info has been answered while the monitor's forced sleep is between its
\* state save and its module unload: it reports sleep enabled and a GPU
\* that is still on the bus and in use
C36_Witness ==
    /\ th["bus"].op = "info" /\ th["bus"].pc = "done"
    /\ th["mon"].op = "sleep" /\ th["mon"].pc \in {"stop", "unload"}
    /\ th["bus"].res.sleep_enabled
    /\ th["bus"].res.msg = "D0"
    /\ stateFile = "on" /\ gpuPresent /\ slots[GpuSlot] = 1

====
